---- MODULE Spec2Model ----
(***************************************************************************)
(* A model of the sampling / aggregation / alerting core of simple-monitor *)
(* (disk, memory, CPU, network and process monitors).                      *)
(*                                                                         *)
(* Numbers that are percentages or counters in the source are integers     *)
(* here.  Time is a logical clock: every reading of time.Now() by a tick   *)
(* is the tick's number.                                                   *)
(***************************************************************************)
EXTENDS Integers, Sequences, FiniteSets, TLC

VARIABLES
    kind,       \* which monitor the collector under study belongs to
    collector,  \* the collector: [config, history]
    now,        \* logical clock: number of Collect...Data calls made so far
    result,     \* what the last Collect...Data call returned: [data, err]
    appended,   \* per series, every value appended to it since construction
    input,      \* the argument of the function under study (status, tree, ranking)
    output,     \* what that function returned, Nil before it has run
    pc,         \* per goroutine: where it is (the statement of updateHistory, 0 outside)
    local,      \* per goroutine: its locals; the call stack of buildProcessTree
    observed,   \* what a reader found out about the history, Nil before it read
    manager,    \* the manager's fields and the channels of its live monitoring
    screen      \* the data last displayed on the terminal, Nil before any

vars == <<kind, collector, now, result, appended, input, output, pc, local, observed, manager, screen>>

(***************************************************************************)
(* Bounds of the model.                                                    *)
(***************************************************************************)
\* Capacity of a history in the model (the constructors set 100).
MaxDataPoints == 2
\* Number of Collect...Data calls explored on one collector.
MaxTicks == 4
\* Number of distinct sampled values.
NumValues == 2

\* Sampled values are percentages: 10, 20, ...
Values == {10 * i : i \in 1..NumValues}

\* Go's nil, for a pointer to a record.
Nil == [nil |-> TRUE]
NoError == "ok"

Kinds == {"disk", "memory", "cpu", "network", "process"}

\* The monitoring loop started by StartLiveMonitoring, and a second goroutine
\* that calls a collecting entry point of the same manager.
Goroutines == {"loop", "caller"}

\* runtime.NumCPU() of the modelled host.
LogicalCores == 2
\* Longest process list explored.
MaxProcs == 3
\* A PID that no process of a list has.
NoSuchPID == 99
\* Number of Collect...Data calls explored while goroutines interleave.
MaxCalls == 2
\* Ticks of the refresh ticker in one ExportInterval (the constructors set one
\* hour at one tick a second).
ExportIntervalTicks == 2
\* Number of successful collections explored in live monitoring, and of failed ones.
LiveTicks == 3
MaxFailures == 1
\* Longest process list explored while buildProcessTree runs step by step.
StepProcs == 2
\* The constructor's MaxTreeDepth and MaxProcesses.
DefaultMaxTreeDepth == 5
DefaultMaxProcesses == 50

(***************************************************************************)
(* Construction.                                                           *)
(***************************************************************************)
EmptyHistory(series) ==
    [s \in series \cup {"MaxDataPoints", "DataPointCount"} |->
        IF s = "MaxDataPoints" THEN MaxDataPoints
        ELSE IF s = "DataPointCount" THEN 0
        ELSE <<>>]

DiskSeries == {"Timestamps", "TotalUsage", "ReadSpeed", "WriteSpeed", "IOPS", "Utilization"}
MemorySeries == {"Timestamps", "TotalUsage", "UserUsage", "SystemUsage", "CacheUsage", "SwapUsage"}
CPUSeries == {"Timestamps", "OverallUsage", "UserUsage", "SystemUsage", "IdleUsage",
              "Temperature", "CoreUsage"}
NetworkSeries == {"Timestamps", "TotalSent", "TotalRecv", "SendSpeed", "RecvSpeed",
                  "Throughput", "Latency", "Utilization"}
ProcessSeries == {"Timestamps", "TotalCPUUsage", "TotalMemoryUsage", "TotalIORead",
                  "TotalIOWrite", "TotalThreads", "ProcessCount"}

NewDiskMonitorCollector ==
    [config |-> [ShowPartitions |-> TRUE, ShowIO |-> TRUE, ShowTemperature |-> TRUE,
                 ShowHealth |-> TRUE, ShowProcesses |-> TRUE, ShowPerformance |-> TRUE,
                 LowSpaceWarning |-> 80, LowSpaceCritical |-> 90,
                 TempWarning |-> 50, TempCritical |-> 60,
                 IOBottleneckThreshold |-> 80,
                 ExportToFile |-> TRUE, ExportInterval |-> ExportIntervalTicks],
     history |-> EmptyHistory(DiskSeries)]

NewMemoryMonitorCollector ==
    [config |-> [ShowModules |-> TRUE, ShowProcesses |-> TRUE, ShowSwap |-> TRUE,
                 ShowCache |-> TRUE, ShowPerformance |-> TRUE,
                 MemoryWarning |-> 70, MemoryCritical |-> 85,
                 SwapWarning |-> 50, SwapCritical |-> 80,
                 ExportToFile |-> TRUE, ExportInterval |-> ExportIntervalTicks],
     history |-> EmptyHistory(MemorySeries)]

NewCPUMonitorCollector ==
    [config |-> [ShowCores |-> TRUE, ShowProcesses |-> TRUE, ShowTemperature |-> TRUE,
                 ShowLoadAverage |-> TRUE],
     history |-> EmptyHistory(CPUSeries)]

NewNetworkMonitorCollector ==
    [config |-> [ShowInterfaces |-> TRUE, ShowIO |-> TRUE, ShowConnections |-> TRUE,
                 ShowProcesses |-> TRUE, ShowLatency |-> TRUE, ShowBandwidth |-> TRUE,
                 ShowPerformance |-> TRUE,
                 LatencyWarning |-> 100, LatencyCritical |-> 200,
                 PacketLossWarning |-> 5, BandwidthWarning |-> 80,
                 ExportToFile |-> TRUE, ExportInterval |-> ExportIntervalTicks],
     history |-> EmptyHistory(NetworkSeries)]

NewProcessMonitorCollector ==
    [config |-> [ShowProcessTree |-> TRUE, ShowResourceUsage |-> TRUE,
                 ShowTopProcesses |-> TRUE, ShowAlerts |-> TRUE, ShowPerformance |-> TRUE,
                 MaxProcesses |-> DefaultMaxProcesses, MaxTreeDepth |-> DefaultMaxTreeDepth,
                 HighCPUThreshold |-> 80, HighMemoryThreshold |-> 80,
                 HighIOThreshold |-> 100, HighThreadThreshold |-> 100,
                 ZombieThreshold |-> 5,
                 ExportToFile |-> TRUE, ExportInterval |-> ExportIntervalTicks],
     history |-> EmptyHistory(ProcessSeries)]

NewCollector(k) ==
    CASE k = "disk" -> NewDiskMonitorCollector
      [] k = "memory" -> NewMemoryMonitorCollector
      [] k = "cpu" -> NewCPUMonitorCollector
      [] k = "network" -> NewNetworkMonitorCollector
      [] k = "process" -> NewProcessMonitorCollector

(***************************************************************************)
(* Status analysis.  A data record starts with Go's zero values: "" for a  *)
(* status string, FALSE for a flag.                                        *)
(***************************************************************************)
RECURSIVE DiskTemperatureLoop(_, _, _, _)
DiskTemperatureLoop(temps, i, d, cfg) ==
    IF i > Len(temps) THEN d
    ELSE IF temps[i] >= cfg.TempCritical
         THEN [d EXCEPT !.HighTempWarning = TRUE, !.DiskStatus = "Critical"]   \* break
    ELSE IF temps[i] >= cfg.TempWarning
         THEN DiskTemperatureLoop(temps, i + 1,
                  [d EXCEPT !.HighTempWarning = TRUE,
                            !.DiskStatus = IF @ = "Normal" THEN "Warning" ELSE @], cfg)
    ELSE DiskTemperatureLoop(temps, i + 1, d, cfg)

\* The checks of analyzeDiskStatus, in the order of the source.
DiskSpaceCheckWarningFirst(d, cfg) ==
    IF d.UsagePercent >= cfg.LowSpaceWarning
    THEN [d EXCEPT !.DiskStatus = "Warning", !.LowSpaceWarning = TRUE]
    ELSE IF d.UsagePercent >= cfg.LowSpaceCritical
    THEN [d EXCEPT !.DiskStatus = "Critical", !.LowSpaceWarning = TRUE]
    ELSE [d EXCEPT !.DiskStatus = "Normal", !.LowSpaceWarning = FALSE]

DiskSpaceCheck(d, cfg) ==
    IF d.UsagePercent >= cfg.LowSpaceCritical
    THEN [d EXCEPT !.DiskStatus = "Critical", !.LowSpaceWarning = TRUE]
    ELSE IF d.UsagePercent >= cfg.LowSpaceWarning
    THEN [d EXCEPT !.DiskStatus = "Warning", !.LowSpaceWarning = TRUE]
    ELSE [d EXCEPT !.DiskStatus = "Normal", !.LowSpaceWarning = FALSE]

DiskTemperatureCheck(d, cfg) == DiskTemperatureLoop(d.DiskTemperatures, 1, d, cfg)

DiskIOCheckAssign(d, cfg) ==
    IF d.DiskUtilization >= cfg.IOBottleneckThreshold
    THEN [d EXCEPT !.IOBottleneck = TRUE, !.DiskStatus = "Warning"]
    ELSE d

DiskIOCheck(d, cfg) ==
    IF d.DiskUtilization >= cfg.IOBottleneckThreshold
    THEN [d EXCEPT !.IOBottleneck = TRUE,
                   !.DiskStatus = IF @ = "Normal" THEN "Warning" ELSE @]
    ELSE d

DiskHealthCheck(d, cfg) ==
    IF \E j \in 1..Len(d.DiskHealth) : d.DiskHealth[j] # "Good"
    THEN [d EXCEPT !.HealthWarning = TRUE,
                   !.DiskStatus = IF @ = "Normal" THEN "Warning" ELSE @]
    ELSE d

\* The data after each check of analyzeDiskStatus.
DiskStatusTrace(data, cfg) ==
    LET space == DiskSpaceCheck(data, cfg)
        temp == DiskTemperatureCheck(space, cfg)
        io == DiskIOCheck(temp, cfg)
        health == DiskHealthCheck(io, cfg)
    IN  <<space, temp, io, health>>

analyzeDiskStatus(data, cfg) == DiskStatusTrace(data, cfg)[4]

getSwapStatus(swapPercent, cfg) ==
    IF swapPercent >= cfg.SwapCritical THEN "Critical"
    ELSE IF swapPercent >= cfg.SwapWarning THEN "Warning"
    ELSE "Normal"

\* recentUsage[i] > recentUsage[i-1] for every i (the loop leaves at the first failure)
IsIncreasing(recentUsage) ==
    \A i \in 2..Len(recentUsage) : ~(recentUsage[i] <= recentUsage[i - 1])

\* The checks of analyzeMemoryStatus, in the order of the source.
MemoryUsageCheckStrict(d, cfg) ==
    IF d.MemoryPercent > cfg.MemoryCritical
    THEN [d EXCEPT !.MemoryStatus = "Critical", !.LowMemoryWarning = TRUE]
    ELSE IF d.MemoryPercent > cfg.MemoryWarning
    THEN [d EXCEPT !.MemoryStatus = "Warning", !.LowMemoryWarning = TRUE]
    ELSE [d EXCEPT !.MemoryStatus = "Normal", !.LowMemoryWarning = FALSE]

MemoryUsageCheck(d, cfg) ==
    IF d.MemoryPercent >= cfg.MemoryCritical
    THEN [d EXCEPT !.MemoryStatus = "Critical", !.LowMemoryWarning = TRUE]
    ELSE IF d.MemoryPercent >= cfg.MemoryWarning
    THEN [d EXCEPT !.MemoryStatus = "Warning", !.LowMemoryWarning = TRUE]
    ELSE [d EXCEPT !.MemoryStatus = "Normal", !.LowMemoryWarning = FALSE]

MemorySwapCheck(d, cfg) ==
    IF d.SwapInfo.SwapPercent >= cfg.SwapCritical
    THEN [d EXCEPT !.MemoryStatus = "Critical"]
    ELSE d

MemoryLeakCheck(d, h) ==
    IF h.DataPointCount > 10
    THEN [d EXCEPT !.MemoryLeakAlert =
             IsIncreasing(SubSeq(h.TotalUsage, Len(h.TotalUsage) - 9, Len(h.TotalUsage)))]
    ELSE d

\* The data after each check of analyzeMemoryStatus.
MemoryStatusTrace(data, cfg, h) ==
    LET usage == MemoryUsageCheck(data, cfg)
        swap == MemorySwapCheck(usage, cfg)
        leak == MemoryLeakCheck(swap, h)
    IN  <<usage, swap, leak>>

analyzeMemoryStatus(data, cfg, h) == MemoryStatusTrace(data, cfg, h)[3]

RECURSIVE NetworkLatencyLoop(_, _, _, _)
NetworkLatencyLoop(infos, i, d, cfg) ==
    IF i > Len(infos) THEN d
    ELSE IF infos[i].Latency >= cfg.LatencyCritical
         THEN [d EXCEPT !.NetworkStatus = "Critical", !.HighLatencyWarning = TRUE]  \* break
    ELSE IF infos[i].Latency >= cfg.LatencyWarning
         THEN NetworkLatencyLoop(infos, i + 1,
                  [d EXCEPT !.HighLatencyWarning = TRUE,
                            !.NetworkStatus = IF @ = "Normal" THEN "Warning" ELSE @], cfg)
    ELSE NetworkLatencyLoop(infos, i + 1, d, cfg)

\* The checks of analyzeNetworkStatus, in the order of the source.
NetworkLatencyCheck(d, cfg) == NetworkLatencyLoop(d.LatencyInfo, 1, d, cfg)

NetworkPacketLossCheck(d, cfg) ==
    IF \E j \in 1..Len(d.LatencyInfo) : d.LatencyInfo[j].PacketLoss >= cfg.PacketLossWarning
    THEN [d EXCEPT !.PacketLossWarning = TRUE,
                   !.NetworkStatus = IF @ = "Normal" THEN "Warning" ELSE @]
    ELSE d

NetworkBandwidthCheck(d, cfg) ==
    IF d.BandwidthInfo.Utilization >= cfg.BandwidthWarning
    THEN [d EXCEPT !.BandwidthWarning = TRUE,
                   !.NetworkStatus = IF @ = "Normal" THEN "Warning" ELSE @]
    ELSE d

NetworkConnectionCheck(d, cfg) ==
    IF d.Connections = 0
    THEN [d EXCEPT !.ConnectionWarning = TRUE,
                   !.NetworkStatus = IF @ = "Normal" THEN "Warning" ELSE @]
    ELSE d

NetworkDefaultStatus(d) ==
    IF d.NetworkStatus = "" THEN [d EXCEPT !.NetworkStatus = "Normal"] ELSE d

\* The data after each check of analyzeNetworkStatus.
NetworkStatusTrace(data, cfg) ==
    LET lat == NetworkLatencyCheck(data, cfg)
        loss == NetworkPacketLossCheck(lat, cfg)
        bw == NetworkBandwidthCheck(loss, cfg)
        conn == NetworkConnectionCheck(bw, cfg)
    IN  <<lat, loss, bw, conn, NetworkDefaultStatus(conn)>>

analyzeNetworkStatus(data, cfg) == NetworkStatusTrace(data, cfg)[5]

\* The checks of analyzeProcessStatus, in the order of the source.
ProcessZombieCheck(d, cfg) ==
    IF d.ZombieProcesses >= cfg.ZombieThreshold
    THEN [d EXCEPT !.ZombieWarning = TRUE, !.ProcessStatus = "Warning"]
    ELSE [d EXCEPT !.ZombieWarning = FALSE]

ProcessCPUCheck(d, cfg) ==
    IF d.TotalCPUUsage >= cfg.HighCPUThreshold
    THEN [d EXCEPT !.HighCPUWarning = TRUE,
                   !.ProcessStatus = IF @ = "" THEN "Warning" ELSE @]
    ELSE [d EXCEPT !.HighCPUWarning = FALSE]

ProcessMemoryCheck(d, cfg) ==
    IF d.TotalMemoryUsage >= cfg.HighMemoryThreshold
    THEN [d EXCEPT !.HighMemoryWarning = TRUE,
                   !.ProcessStatus = IF @ = "" THEN "Warning" ELSE @]
    ELSE [d EXCEPT !.HighMemoryWarning = FALSE]

ProcessIOCheck(d, cfg) ==
    IF d.TotalIORead + d.TotalIOWrite >= cfg.HighIOThreshold
    THEN [d EXCEPT !.HighIOWarning = TRUE,
                   !.ProcessStatus = IF @ = "" THEN "Warning" ELSE @]
    ELSE [d EXCEPT !.HighIOWarning = FALSE]

ProcessThreadCheck(d, cfg) ==
    IF d.TotalThreads >= cfg.HighThreadThreshold
    THEN [d EXCEPT !.ThreadWarning = TRUE,
                   !.ProcessStatus = IF @ = "" THEN "Warning" ELSE @]
    ELSE [d EXCEPT !.ThreadWarning = FALSE]

ProcessDefaultStatus(d) ==
    IF d.ProcessStatus = "" THEN [d EXCEPT !.ProcessStatus = "Normal"] ELSE d

\* The data after each check of analyzeProcessStatus.
ProcessStatusTrace(data, cfg) ==
    LET zombie == ProcessZombieCheck(data, cfg)
        cpu == ProcessCPUCheck(zombie, cfg)
        mem == ProcessMemoryCheck(cpu, cfg)
        io == ProcessIOCheck(mem, cfg)
        thr == ProcessThreadCheck(io, cfg)
    IN  <<zombie, cpu, mem, io, thr, ProcessDefaultStatus(thr)>>

analyzeProcessStatus(data, cfg) == ProcessStatusTrace(data, cfg)[6]

(***************************************************************************)
(* One tick's data.  A provider reading p is [fail, v]: the collection     *)
(* step whose platform call fails in this tick ("none": no step fails) and *)
(* the value the platform reports.  A step that the configuration switches *)
(* off leaves Go's zero values in the data.                                *)
(***************************************************************************)
\* float64 values are modelled as integers; the two results of a float64
\* division by zero are integers outside the range of every measured value,
\* placed so that they compare with a threshold as the float does (NaN >= x
\* is false, +Inf >= x is true).
NaN == 0 - 1

PosInf == 1000000

IsValidNumber(x) == x # NaN /\ x # PosInf

\* a / b in float64: no panic on b = 0.
Divide(a, b) ==
    IF b = 0 THEN (IF a = 0 THEN NaN ELSE PosInf) ELSE a \div b

Percent(part, total) ==
    IF total = 0 THEN (IF part = 0 THEN NaN ELSE PosInf) ELSE (part * 100) \div total

DiskData(p, cfg) ==
    [UsagePercent |-> IF cfg.ShowPartitions THEN p.v ELSE 0,
     TotalReadSpeed |-> IF cfg.ShowIO THEN p.v * p.n ELSE 0,
     TotalWriteSpeed |-> IF cfg.ShowIO THEN p.v * p.n ELSE 0,
     AverageIOPS |-> IF cfg.ShowIO THEN Divide(p.v * p.n, p.n) ELSE 0,
     DiskUtilization |-> IF cfg.ShowIO /\ cfg.ShowPerformance /\ p.n > 0 THEN p.v ELSE 0,
     DiskTemperatures |-> IF cfg.ShowTemperature THEN <<35>> ELSE <<>>,
     DiskHealth |-> IF cfg.ShowHealth THEN <<"Good">> ELSE <<>>,
     DiskStatus |-> "", LowSpaceWarning |-> FALSE, HighTempWarning |-> FALSE,
     IOBottleneck |-> FALSE, HealthWarning |-> FALSE]

MemoryData(p, cfg) ==
    [TotalMemory |-> 100 * p.n, MemoryPercent |-> p.v * p.n,
     UserMemory |-> ((p.v * 6) \div 10) * p.n, SystemMemory |-> ((p.v * 3) \div 10) * p.n,
     CacheMemory |-> (p.v \div 10) * p.n,
     SwapInfo |-> IF cfg.ShowSwap
                  THEN [SwapPercent |-> p.v, SwapStatus |-> getSwapStatus(p.v, cfg)]
                  ELSE [SwapPercent |-> 0, SwapStatus |-> ""],
     MemoryStatus |-> "", LowMemoryWarning |-> FALSE, MemoryLeakAlert |-> FALSE]

CPUData(p, cfg) ==
    [OverallUsage |-> p.v, IdleUsage |-> 100 - p.v,
     UserUsage |-> (p.v * 7) \div 10, SystemUsage |-> (p.v * 3) \div 10,
     Temperature |-> 0,
     Cores |-> IF cfg.ShowCores THEN [i \in 1..LogicalCores |-> p.v] ELSE <<>>]

NetworkData(p, cfg) ==
    LET interfaces == IF cfg.ShowInterfaces THEN p.n ELSE 0
        speed == IF cfg.ShowIO THEN p.v * p.n ELSE 0
        utilization == IF cfg.ShowBandwidth THEN Percent(2 * speed, interfaces * 1000) ELSE 0
    IN  [Interfaces |-> interfaces,
         TotalBytesSent |-> speed, TotalBytesRecv |-> speed,
         TotalSendSpeed |-> speed, TotalRecvSpeed |-> speed,
         TotalThroughput |-> 2 * speed,
         Connections |-> IF cfg.ShowConnections THEN 1 ELSE 0,
         LatencyInfo |-> IF cfg.ShowLatency
                         THEN <<[Latency |-> p.v, PacketLoss |-> 0]>> ELSE <<>>,
         BandwidthInfo |-> [Utilization |-> utilization],
         AverageLatency |-> IF cfg.ShowLatency /\ cfg.ShowPerformance THEN p.v ELSE 0,
         NetworkUtilization |-> IF cfg.ShowPerformance THEN utilization ELSE 0,
         NetworkStatus |-> "", HighLatencyWarning |-> FALSE, PacketLossWarning |-> FALSE,
         BandwidthWarning |-> FALSE, ConnectionWarning |-> FALSE]

ProcessData(p, cfg) ==
    [TotalProcesses |-> 1, TotalCPUUsage |-> p.v, TotalMemoryUsage |-> p.v,
     TotalIORead |-> p.v, TotalIOWrite |-> p.v, TotalThreads |-> p.v,
     ZombieProcesses |-> 0,
     ProcessStatus |-> "", ZombieWarning |-> FALSE, HighCPUWarning |-> FALSE,
     HighMemoryWarning |-> FALSE, HighIOWarning |-> FALSE, ThreadWarning |-> FALSE]

(***************************************************************************)
(* The collection steps of Collect...Data that can return an error, in the *)
(* order of the source, each with the configuration flag that guards it    *)
(* ("": not guarded).                                                      *)
(***************************************************************************)
DiskSteps == << <<"partition", "ShowPartitions">>, <<"io", "ShowIO">>,
                <<"temperature", "ShowTemperature">>, <<"health", "ShowHealth">>,
                <<"process", "ShowProcesses">> >>
MemorySteps == << <<"basic", "">>, <<"breakdown", "">>, <<"performance", "ShowPerformance">>,
                  <<"modules", "ShowModules">>, <<"swap", "ShowSwap">>,
                  <<"cache", "ShowCache">>, <<"process", "ShowProcesses">> >>
CPUSteps == << <<"basic", "">>, <<"usage", "">>, <<"core", "ShowCores">>,
               <<"process", "ShowProcesses">> >>
NetworkSteps == << <<"interface", "ShowInterfaces">>, <<"io", "ShowIO">>,
                   <<"connection", "ShowConnections">>, <<"process", "ShowProcesses">> >>
ProcessSteps == << <<"processes", "">> >>

StepsOf(k) ==
    CASE k = "disk" -> DiskSteps
      [] k = "memory" -> MemorySteps
      [] k = "cpu" -> CPUSteps
      [] k = "network" -> NetworkSteps
      [] k = "process" -> ProcessSteps

StepNames(k) == {StepsOf(k)[i][1] : i \in 1..Len(StepsOf(k))}

\* The error the collection steps end with: the step that fails, if it runs.
CollectError(steps, cfg, p) ==
    IF \E i \in 1..Len(steps) :
          /\ steps[i][1] = p.fail
          /\ (steps[i][2] = "" \/ cfg[steps[i][2]])
    THEN p.fail
    ELSE NoError

(***************************************************************************)
(* updateHistory, statement by statement, as the source lists them:        *)
(*   <<"now", s>>            s = append(s, time.Now())                     *)
(*   <<"append", s, f>>      s = append(s, data.f)                         *)
(*   <<"percent", s, f>>     s = append(s, data.f / data.TotalMemory * 100)*)
(*   <<"cores", s>>          if len(data.Cores) > 0 { s = append(s, ...) } *)
(*   <<"limit">>             if len(Timestamps) > MaxDataPoints {          *)
(*   <<"trim", s>>               s = s[1:]                                 *)
(*   <<"trimNonEmpty", s>>       if len(s) > 0 { s = s[1:] }      }        *)
(*   <<"count">>             DataPointCount = len(Timestamps)              *)
(***************************************************************************)
DiskUpdateHistory ==
    << <<"now", "Timestamps">>,
       <<"append", "TotalUsage", "UsagePercent">>,
       <<"append", "ReadSpeed", "TotalReadSpeed">>,
       <<"append", "WriteSpeed", "TotalWriteSpeed">>,
       <<"append", "IOPS", "AverageIOPS">>,
       <<"append", "Utilization", "DiskUtilization">>,
       <<"limit">>,
       <<"trim", "Timestamps">>, <<"trim", "TotalUsage">>, <<"trim", "ReadSpeed">>,
       <<"trim", "WriteSpeed">>, <<"trim", "IOPS">>, <<"trim", "Utilization">>,
       <<"count">> >>

MemoryUpdateHistory ==
    << <<"now", "Timestamps">>,
       <<"append", "TotalUsage", "MemoryPercent">>,
       <<"percent", "UserUsage", "UserMemory">>,
       <<"percent", "SystemUsage", "SystemMemory">>,
       <<"percent", "CacheUsage", "CacheMemory">>,
       <<"swap", "SwapUsage">>,
       <<"limit">>,
       <<"trim", "Timestamps">>, <<"trim", "TotalUsage">>, <<"trim", "UserUsage">>,
       <<"trim", "SystemUsage">>, <<"trim", "CacheUsage">>, <<"trim", "SwapUsage">>,
       <<"count">> >>

CPUUpdateHistory ==
    << <<"now", "Timestamps">>,
       <<"append", "OverallUsage", "OverallUsage">>,
       <<"append", "UserUsage", "UserUsage">>,
       <<"append", "SystemUsage", "SystemUsage">>,
       <<"append", "IdleUsage", "IdleUsage">>,
       <<"append", "Temperature", "Temperature">>,
       <<"cores", "CoreUsage">>,
       <<"limit">>,
       <<"trim", "Timestamps">>, <<"trim", "OverallUsage">>, <<"trim", "UserUsage">>,
       <<"trim", "SystemUsage">>, <<"trim", "IdleUsage">>, <<"trim", "Temperature">>,
       <<"trimNonEmpty", "CoreUsage">>,
       <<"count">> >>

NetworkUpdateHistory ==
    << <<"now", "Timestamps">>,
       <<"append", "TotalSent", "TotalBytesSent">>,
       <<"append", "TotalRecv", "TotalBytesRecv">>,
       <<"append", "SendSpeed", "TotalSendSpeed">>,
       <<"append", "RecvSpeed", "TotalRecvSpeed">>,
       <<"append", "Throughput", "TotalThroughput">>,
       <<"append", "Latency", "AverageLatency">>,
       <<"append", "Utilization", "NetworkUtilization">>,
       <<"limit">>,
       <<"trim", "Timestamps">>, <<"trim", "TotalSent">>, <<"trim", "TotalRecv">>,
       <<"trim", "SendSpeed">>, <<"trim", "RecvSpeed">>, <<"trim", "Throughput">>,
       <<"trim", "Latency">>, <<"trim", "Utilization">>,
       <<"count">> >>

ProcessUpdateHistory ==
    << <<"now", "Timestamps">>,
       <<"append", "TotalCPUUsage", "TotalCPUUsage">>,
       <<"append", "TotalMemoryUsage", "TotalMemoryUsage">>,
       <<"append", "TotalIORead", "TotalIORead">>,
       <<"append", "TotalIOWrite", "TotalIOWrite">>,
       <<"append", "TotalThreads", "TotalThreads">>,
       <<"append", "ProcessCount", "TotalProcesses">>,
       <<"limit">>,
       <<"trim", "Timestamps">>, <<"trim", "TotalCPUUsage">>, <<"trim", "TotalMemoryUsage">>,
       <<"trim", "TotalIORead">>, <<"trim", "TotalIOWrite">>, <<"trim", "TotalThreads">>,
       <<"trim", "ProcessCount">>,
       <<"count">> >>

UpdateHistoryOf(k) ==
    CASE k = "disk" -> DiskUpdateHistory
      [] k = "memory" -> MemoryUpdateHistory
      [] k = "cpu" -> CPUUpdateHistory
      [] k = "network" -> NetworkUpdateHistory
      [] k = "process" -> ProcessUpdateHistory

\* s with its newest point removed.
TrimNewest(s) == SubSeq(s, 1, Len(s) - 1)

\* s[1:], s with its oldest point removed.
Trim(s) == Tail(s)

\* A limit that lets one point more through.
OverLimitByTwo(h) == Len(h.Timestamps) > h.MaxDataPoints + 1

\* len(history.Timestamps) > history.MaxDataPoints
OverLimit(h) == Len(h.Timestamps) > h.MaxDataPoints

\* One statement of updateHistory on h, the history.  over is the value the
\* condition of the "limit" statement had when this execution evaluated it.
ExecStmt(st, stmt, data, t) ==
    LET h == st.h
        op == stmt[1]
    IN  CASE op = "now" -> [st EXCEPT !.h[stmt[2]] = Append(@, t)]
          [] op = "append" -> [st EXCEPT !.h[stmt[2]] = Append(@, data[stmt[3]])]
          [] op = "percent" ->
                [st EXCEPT !.h[stmt[2]] = Append(@, Percent(data[stmt[3]], data.TotalMemory))]
          [] op = "swap" -> [st EXCEPT !.h[stmt[2]] = Append(@, data.SwapInfo.SwapPercent)]
          [] op = "cores" ->
                IF Len(data.Cores) > 0
                THEN [st EXCEPT !.h[stmt[2]] = Append(@, data.Cores)]
                ELSE st
          [] op = "limit" -> [st EXCEPT !.over = OverLimit(h)]
          [] op = "trim" -> IF st.over THEN [st EXCEPT !.h[stmt[2]] = Trim(@)] ELSE st
          [] op = "trimNonEmpty" ->
                IF st.over /\ Len(h[stmt[2]]) > 0
                THEN [st EXCEPT !.h[stmt[2]] = Trim(@)]
                ELSE st
          [] op = "count" -> [st EXCEPT !.h.DataPointCount = Len(h.Timestamps)]

\* Statements i..j of a statement list, in order.
RECURSIVE RunStmts(_, _, _, _, _, _)
RunStmts(stmts, i, j, st, data, t) ==
    IF i > j THEN st
    ELSE RunStmts(stmts, i + 1, j, ExecStmt(st, stmts[i], data, t), data, t)

updateHistory(stmts, h, data, t) ==
    RunStmts(stmts, 1, Len(stmts), [h |-> h, over |-> FALSE], data, t).h

(***************************************************************************)
(* Collect...Data: the collection steps, the status analysis, and last the *)
(* history update.  The result is [data, err, collector].                  *)
(***************************************************************************)
\* A collection that records the tick in history before it looks at the error.
CollectDiskRecordFirst(c, p, t) ==
    LET err == CollectError(DiskSteps, c.config, p)
        data == analyzeDiskStatus(DiskData(p, c.config), c.config)
        c2 == [c EXCEPT !.history = updateHistory(DiskUpdateHistory, @, data, t)]
    IN  IF err # NoError
        THEN [data |-> Nil, err |-> err, collector |-> c2]
        ELSE [data |-> data, err |-> NoError, collector |-> c2]

CollectDiskMonitorData(c, p, t) ==
    LET err == CollectError(DiskSteps, c.config, p)
        data == analyzeDiskStatus(DiskData(p, c.config), c.config)
    IN  IF err # NoError
        THEN [data |-> Nil, err |-> err, collector |-> c]
        ELSE [data |-> data, err |-> NoError,
              collector |-> [c EXCEPT !.history = updateHistory(DiskUpdateHistory, @, data, t)]]

CollectMemoryMonitorData(c, p, t) ==
    LET err == CollectError(MemorySteps, c.config, p)
        data == analyzeMemoryStatus(MemoryData(p, c.config), c.config, c.history)
    IN  IF err # NoError
        THEN [data |-> Nil, err |-> err, collector |-> c]
        ELSE [data |-> data, err |-> NoError,
              collector |-> [c EXCEPT !.history = updateHistory(MemoryUpdateHistory, @, data, t)]]

CollectCPUMonitorData(c, p, t) ==
    LET err == CollectError(CPUSteps, c.config, p)
        data == CPUData(p, c.config)
    IN  IF err # NoError
        THEN [data |-> Nil, err |-> err, collector |-> c]
        ELSE [data |-> data, err |-> NoError,
              collector |-> [c EXCEPT !.history = updateHistory(CPUUpdateHistory, @, data, t)]]

CollectNetworkMonitorData(c, p, t) ==
    LET err == CollectError(NetworkSteps, c.config, p)
        data == analyzeNetworkStatus(NetworkData(p, c.config), c.config)
    IN  IF err # NoError
        THEN [data |-> Nil, err |-> err, collector |-> c]
        ELSE [data |-> data, err |-> NoError,
              collector |-> [c EXCEPT !.history = updateHistory(NetworkUpdateHistory, @, data, t)]]

CollectProcessMonitorData(c, p, t) ==
    LET err == CollectError(ProcessSteps, c.config, p)
        data == analyzeProcessStatus(ProcessData(p, c.config), c.config)
    IN  IF err # NoError
        THEN [data |-> Nil, err |-> err, collector |-> c]
        ELSE [data |-> data, err |-> NoError,
              collector |-> [c EXCEPT !.history = updateHistory(ProcessUpdateHistory, @, data, t)]]

CollectMonitorData(k, c, p, t) ==
    CASE k = "disk" -> CollectDiskMonitorData(c, p, t)
      [] k = "memory" -> CollectMemoryMonitorData(c, p, t)
      [] k = "cpu" -> CollectCPUMonitorData(c, p, t)
      [] k = "network" -> CollectNetworkMonitorData(c, p, t)
      [] k = "process" -> CollectProcessMonitorData(c, p, t)

(***************************************************************************)
(* Spec: one collector of any of the five monitors, from construction,     *)
(* under a sequence of Collect...Data calls, one at a time.                *)
(***************************************************************************)
SeriesOf(h) == DOMAIN h \ {"MaxDataPoints", "DataPointCount"}

\* A reading of the platform: the collection step that fails (or none), the
\* measured value, and the number of units the platform reports (disk I/O
\* devices, network interfaces, blocks of total memory).
Providers(k) == [fail : StepNames(k) \cup {"none"}, v : Values, n : {1}]

\* appended, extended by what a call whose collector went from h to h2 added:
\* every series is appended to at most once a call, before anything is trimmed.
Recorded(log, stmts, h, data, t) ==
    LET limit == CHOOSE i \in 1..Len(stmts) : stmts[i][1] = "limit"
        grown == RunStmts(stmts, 1, limit - 1, [h |-> h, over |-> FALSE], data, t).h
    IN  [s \in DOMAIN log |->
            IF Len(grown[s]) > Len(h[s]) THEN Append(log[s], grown[s][Len(grown[s])])
            ELSE log[s]]

Init ==
    /\ kind \in Kinds
    /\ collector = NewCollector(kind)
    /\ now = 0
    /\ result = [data |-> Nil, err |-> NoError]
    /\ appended = [s \in SeriesOf(NewCollector(kind).history) |-> <<>>]
    /\ input = Nil /\ output = Nil
    /\ pc = [g \in Goroutines |-> 0]
    /\ local = [g \in Goroutines |-> Nil]
    /\ observed = Nil
    /\ manager = Nil /\ screen = Nil

\* A call of Collect...Data (by a tick of live monitoring or by any other caller).
CollectData ==
    /\ now < MaxTicks
    /\ \E p \in Providers(kind) :
          LET r == CollectMonitorData(kind, collector, p, now + 1) IN
          /\ collector' = r.collector
          /\ result' = [data |-> r.data, err |-> r.err]
          /\ now' = IF r.err = NoError THEN now + 1 ELSE now
          /\ appended' = IF r.err = NoError
                         THEN Recorded(appended, UpdateHistoryOf(kind),
                                       collector.history, r.data, now + 1)
                         ELSE appended
    /\ UNCHANGED <<kind, input, output, pc, local, observed, manager, screen>>

\* CPUMonitorManager.SetConfiguration with ShowCores switched.
SetConfig ==
    /\ kind = "cpu"
    /\ collector' = [collector EXCEPT !.config.ShowCores = ~@]
    /\ UNCHANGED <<kind, now, result, appended, input, output, pc, local, observed, manager, screen>>

Next == CollectData \/ SetConfig

Spec == Init /\ [][Next]_vars

(***************************************************************************)
(* Properties of the history under Spec.                                   *)
(***************************************************************************)
Min(a, b) == IF a < b THEN a ELSE b

LastN(seq, n) == SubSeq(seq, Len(seq) - n + 1, Len(seq))

\* C1: after every Collect...Data call on a collector of any of the five
\* monitors, every history series has at most MaxDataPoints points and the
\* points it holds are the ones most recently appended to it, in order.
C1_BoundedHistory ==
    LET h == collector.history IN
    \A s \in SeriesOf(h) :
        /\ Len(h[s]) <= h.MaxDataPoints
        /\ Len(h[s]) <= Len(appended[s])
        /\ h[s] = LastN(appended[s], Len(h[s]))

\* C1 witness: a full history from which the oldest point has been evicted.
C1_Witness ==
    /\ Len(collector.history.Timestamps) = collector.history.MaxDataPoints
    /\ Len(appended.Timestamps) > collector.history.MaxDataPoints
    /\ collector.history.Timestamps[1] = Len(appended.Timestamps) - MaxDataPoints + 1

\* C2: after k successful ticks every series that received a value on each of
\* them holds exactly the last min(k, MaxDataPoints) of these values, in
\* arrival order: eviction removes one point an append, the oldest.
C2_FIFOEviction ==
    LET h == collector.history IN
    \A s \in SeriesOf(h) :
        Len(appended[s]) = now =>
            h[s] = LastN(appended[s], Min(now, h.MaxDataPoints))

\* C2 witness: MaxDataPoints + 1 ticks with differing first and second values
\* have left the second to the last value in a value series.
C2_Witness ==
    /\ kind = "disk"
    /\ now = MaxDataPoints + 1
    /\ Len(appended.TotalUsage) = now
    /\ appended.TotalUsage[1] # appended.TotalUsage[2]
    /\ collector.history.TotalUsage = Tail(appended.TotalUsage)
    /\ collector.history.Timestamps = Tail(appended.Timestamps)

\* C8: a Collect...Data call that returns an error leaves the history as it
\* was (no series appended to or trimmed, DataPointCount unchanged) and
\* returns nil data.
C8_FailedCollectKeepsHistory ==
    [][result'.err # NoError =>
          /\ collector'.history = collector.history
          /\ result'.data = Nil]_vars

\* C8 witness: a call has failed on a collector with recorded history.
C8_Witness ==
    /\ result.err # NoError
    /\ result.data = Nil
    /\ collector.history.DataPointCount > 0
    /\ collector.history.Timestamps = LastN(appended.Timestamps, collector.history.DataPointCount)

(***************************************************************************)
(* SpecStatus: the status analysis of the disk, memory, network and        *)
(* process monitors on one tick's data, under the constructor's thresholds.*)
(***************************************************************************)
StatusKinds == {"disk", "memory", "network", "process"}

\* Measurements below, at and above the thresholds of the constructors.
StatusInputs(k) ==
    CASE k = "disk" ->
           { [DiskData([fail |-> "none", v |-> 0, n |-> 1], NewDiskMonitorCollector.config)
                 EXCEPT !.UsagePercent = u, !.DiskTemperatures = t,
                        !.DiskUtilization = io, !.DiskHealth = hs] :
               u \in {50, 80, 90}, t \in {<<>>, <<35>>, <<50>>, <<60>>, <<50, 60>>, <<60, 35>>},
               io \in {10, 80}, hs \in {<<"Good">>, <<"Good", "Failing">>} }
      [] k = "memory" ->
           { [MemoryData([fail |-> "none", v |-> 0, n |-> 1], NewMemoryMonitorCollector.config)
                 EXCEPT !.MemoryPercent = u,
                        !.SwapInfo = [SwapPercent |-> sw,
                                      SwapStatus |-> getSwapStatus(sw, NewMemoryMonitorCollector.config)]] :
               u \in {50, 70, 85}, sw \in {0, 50, 80} }
      [] k = "network" ->
           { [NetworkData([fail |-> "none", v |-> 0, n |-> 1], NewNetworkMonitorCollector.config)
                 EXCEPT !.LatencyInfo = l, !.BandwidthInfo = [Utilization |-> bw],
                        !.Connections = c] :
               l \in {<<>>} \cup
                     { <<[Latency |-> ms, PacketLoss |-> loss]>> :
                          ms \in {20, 100, 200}, loss \in {0, 5} } \cup
                     { <<[Latency |-> 100, PacketLoss |-> 0], [Latency |-> ms, PacketLoss |-> 0]>> :
                          ms \in {20, 200} },
               bw \in {10, 80}, c \in {0, 1} }
      [] k = "process" ->
           { [ProcessData([fail |-> "none", v |-> 0, n |-> 1], NewProcessMonitorCollector.config)
                 EXCEPT !.ZombieProcesses = z, !.TotalCPUUsage = cpu, !.TotalMemoryUsage = mem,
                        !.TotalIORead = io, !.TotalThreads = thr] :
               z \in {0, 5}, cpu \in {10, 80}, mem \in {10, 80}, io \in {0, 100},
               thr \in {1, 100} }

\* analyze...Status of the monitor k.
AnalyzeStatus(k, data, c) ==
    CASE k = "disk" -> analyzeDiskStatus(data, c.config)
      [] k = "memory" -> analyzeMemoryStatus(data, c.config, c.history)
      [] k = "network" -> analyzeNetworkStatus(data, c.config)
      [] k = "process" -> analyzeProcessStatus(data, c.config)

InitStatus ==
    /\ kind \in StatusKinds
    /\ collector = NewCollector(kind)
    /\ now = 0
    /\ result = [data |-> Nil, err |-> NoError]
    /\ appended = [s \in SeriesOf(NewCollector(kind).history) |-> <<>>]
    /\ input \in StatusInputs(kind)
    /\ output = Nil
    /\ pc = [g \in Goroutines |-> 0]
    /\ local = [g \in Goroutines |-> Nil]
    /\ observed = Nil
    /\ manager = Nil /\ screen = Nil

\* The status analysis of one tick.
Analyze ==
    /\ output = Nil
    /\ output' = AnalyzeStatus(kind, input, collector)
    /\ UNCHANGED <<kind, collector, now, result, appended, input, pc, local, observed, manager, screen>>

NextStatus == Analyze

SpecStatus == InitStatus /\ [][NextStatus]_vars

Severity(status) ==
    CASE status = "Critical" -> 2
      [] status = "Warning" -> 1
      [] OTHER -> 0

Warned(flag) == IF flag THEN "Warning" ELSE "Normal"

\* The severity of every check of an analysed record d of the monitor k,
\* under the thresholds of the configuration cfg.
Checks(k, d, cfg) ==
    CASE k = "disk" ->
           { IF d.UsagePercent >= cfg.LowSpaceCritical THEN "Critical" ELSE Warned(d.LowSpaceWarning),
             IF \E i \in 1..Len(d.DiskTemperatures) : d.DiskTemperatures[i] >= cfg.TempCritical
             THEN "Critical" ELSE Warned(d.HighTempWarning),
             Warned(d.IOBottleneck), Warned(d.HealthWarning) }
      [] k = "memory" ->
           { IF d.MemoryPercent >= cfg.MemoryCritical THEN "Critical" ELSE Warned(d.LowMemoryWarning),
             d.SwapInfo.SwapStatus }
      [] k = "network" ->
           { IF \E i \in 1..Len(d.LatencyInfo) : d.LatencyInfo[i].Latency >= cfg.LatencyCritical
             THEN "Critical" ELSE Warned(d.HighLatencyWarning),
             Warned(d.PacketLossWarning), Warned(d.BandwidthWarning),
             Warned(d.ConnectionWarning) }
      [] k = "process" ->
           { Warned(d.ZombieWarning), Warned(d.HighCPUWarning), Warned(d.HighMemoryWarning),
             Warned(d.HighIOWarning), Warned(d.ThreadWarning) }

OverallStatus(k, d) ==
    CASE k = "disk" -> d.DiskStatus
      [] k = "memory" -> d.MemoryStatus
      [] k = "network" -> d.NetworkStatus
      [] k = "process" -> d.ProcessStatus

\* C3: after the status analysis of any monitor the overall status has the
\* highest severity among the checks that fired, and is Normal only when no
\* check is at Warning or above.
C3_OverallIsHighestSeverity ==
    output # Nil =>
        /\ OverallStatus(kind, output) \in {"Normal", "Warning", "Critical"}
        /\ \A c \in Checks(kind, output, collector.config) :
              Severity(OverallStatus(kind, output)) >= Severity(c)
        /\ \E c \in Checks(kind, output, collector.config) :
              Severity(OverallStatus(kind, output)) = Severity(c)

(***************************************************************************)
(* SpecThreshold: the status analysis of one tick under thresholds that    *)
(* UpdateConfig has set in any order (a warning threshold below, at or     *)
(* above its critical threshold).  output is the data after each check.    *)
(***************************************************************************)
\* The configurations UpdateConfig is called with.
ThresholdConfigs(k) ==
    CASE k = "disk" ->
           { [NewDiskMonitorCollector.config
                 EXCEPT !.LowSpaceWarning = w1, !.LowSpaceCritical = c1,
                        !.TempWarning = w2, !.TempCritical = c2] :
               w1 \in {80, 90}, c1 \in {80, 90}, w2 \in {50, 60}, c2 \in {50, 60} }
      [] k = "memory" ->
           { [NewMemoryMonitorCollector.config
                 EXCEPT !.MemoryWarning = w1, !.MemoryCritical = c1,
                        !.SwapWarning = w2, !.SwapCritical = c2] :
               w1 \in {70, 85}, c1 \in {70, 85}, w2 \in {50, 80}, c2 \in {50, 80} }
      [] k = "network" ->
           { [NewNetworkMonitorCollector.config
                 EXCEPT !.LatencyWarning = w, !.LatencyCritical = c] :
               w \in {100, 200}, c \in {100, 200} }
      [] k = "process" -> { NewProcessMonitorCollector.config }

\* collectSwapInfo: the swap status of the collected data.
collectSwapInfo(d, cfg) ==
    [d EXCEPT !.SwapInfo.SwapStatus = getSwapStatus(d.SwapInfo.SwapPercent, cfg)]

\* The data after each check of analyze...Status of the monitor k.
StatusTrace(k, data, c) ==
    CASE k = "disk" -> DiskStatusTrace(data, c.config)
      [] k = "memory" -> MemoryStatusTrace(collectSwapInfo(data, c.config), c.config, c.history)
      [] k = "network" -> NetworkStatusTrace(data, c.config)
      [] k = "process" -> ProcessStatusTrace(data, c.config)

InitThreshold ==
    /\ kind \in StatusKinds
    /\ \E cfg \in ThresholdConfigs(kind) :
          collector = [NewCollector(kind) EXCEPT !.config = cfg]
    /\ now = 0
    /\ result = [data |-> Nil, err |-> NoError]
    /\ appended = [s \in SeriesOf(NewCollector(kind).history) |-> <<>>]
    /\ input \in StatusInputs(kind)
    /\ output = Nil
    /\ pc = [g \in Goroutines |-> 0]
    /\ local = [g \in Goroutines |-> Nil]
    /\ observed = Nil
    /\ manager = Nil /\ screen = Nil

\* The status analysis of one tick, check by check.
AnalyzeChecks ==
    /\ output = Nil
    /\ output' = StatusTrace(kind, input, collector)
    /\ UNCHANGED <<kind, collector, now, result, appended, input, pc, local, observed, manager, screen>>

NextThreshold == AnalyzeChecks

SpecThreshold == InitThreshold /\ [][NextThreshold]_vars

\* The classification of a value v under a warning threshold w and a
\* critical threshold c.
Classify(v, w, c) ==
    IF v >= c THEN "Critical" ELSE IF v >= w THEN "Warning" ELSE "Normal"

\* C13: the usage check of the memory analysis, the swap status and the space
\* check of the disk analysis classify with inclusive bounds: Critical from
\* the critical threshold on, otherwise Warning from the warning threshold
\* on, otherwise Normal.
C13_InclusiveThresholds ==
    output # Nil =>
       LET cfg == collector.config IN
       /\ kind = "memory" =>
             /\ output[1].MemoryStatus =
                   Classify(input.MemoryPercent, cfg.MemoryWarning, cfg.MemoryCritical)
             /\ output[1].SwapInfo.SwapStatus =
                   Classify(input.SwapInfo.SwapPercent, cfg.SwapWarning, cfg.SwapCritical)
       /\ kind = "disk" =>
             output[1].DiskStatus =
                Classify(input.UsagePercent, cfg.LowSpaceWarning, cfg.LowSpaceCritical)

\* C13 witness: memory usage exactly at the warning threshold, below the
\* critical one, has been classified Warning.
C13_Witness ==
    /\ output # Nil
    /\ kind = "memory"
    /\ input.MemoryPercent = collector.config.MemoryWarning
    /\ input.MemoryPercent < collector.config.MemoryCritical
    /\ output[1].MemoryStatus = "Warning"

\* C14: in one analysis no check leaves the overall status at a lower severity
\* than the check before it, and a disk at or above TempCritical makes the
\* disk status Critical.
C14_StatusNeverLowered ==
    output # Nil =>
       /\ \A i \in DOMAIN output : \A j \in DOMAIN output :
             i < j => Severity(OverallStatus(kind, output[i]))
                         <= Severity(OverallStatus(kind, output[j]))
       /\ (/\ kind = "disk"
           /\ \E i \in 1..Len(input.DiskTemperatures) :
                 input.DiskTemperatures[i] >= collector.config.TempCritical)
          => output[Len(output)].DiskStatus = "Critical"

\* C14 witness: one disk at TempCritical or above while space, I/O and health
\* are Normal: the space check gave Normal and the analysis ends with Critical.
C14_Witness ==
    /\ output # Nil
    /\ kind = "disk"
    /\ Len(input.DiskTemperatures) = 1
    /\ input.DiskTemperatures[1] >= collector.config.TempCritical
    /\ output[1].DiskStatus = "Normal"
    /\ ~output[4].IOBottleneck /\ ~output[4].HealthWarning
    /\ output[4].DiskStatus = "Critical"

\* What a check with a warning threshold above its critical threshold c
\* gives for the value v.
CriticalAlone(v, c) == IF v >= c THEN "Critical" ELSE "Normal"

\* C15: under a warning threshold above the critical threshold every check
\* still classifies, by the critical threshold alone: Critical from it on,
\* and below it the check neither warns nor changes the status.
C15_MisorderedThresholds ==
    output # Nil =>
       LET cfg == collector.config IN
       /\ (kind = "disk" /\ cfg.LowSpaceWarning > cfg.LowSpaceCritical) =>
             output[1].DiskStatus = CriticalAlone(input.UsagePercent, cfg.LowSpaceCritical)
       /\ (kind = "disk" /\ cfg.TempWarning > cfg.TempCritical) =>
             IF \E i \in 1..Len(input.DiskTemperatures) :
                   input.DiskTemperatures[i] >= cfg.TempCritical
             THEN output[2].DiskStatus = "Critical"
             ELSE output[2] = output[1]
       /\ (kind = "memory" /\ cfg.MemoryWarning > cfg.MemoryCritical) =>
             output[1].MemoryStatus = CriticalAlone(input.MemoryPercent, cfg.MemoryCritical)
       /\ (kind = "memory" /\ cfg.SwapWarning > cfg.SwapCritical) =>
             output[1].SwapInfo.SwapStatus =
                CriticalAlone(input.SwapInfo.SwapPercent, cfg.SwapCritical)
       /\ (kind = "network" /\ cfg.LatencyWarning > cfg.LatencyCritical) =>
             IF \E i \in 1..Len(input.LatencyInfo) :
                   input.LatencyInfo[i].Latency >= cfg.LatencyCritical
             THEN output[1].NetworkStatus = "Critical"
             ELSE output[1] = input

\* C15 witness: disk usage from the critical threshold on and below the
\* warning threshold above it has been classified Critical.
C15_Witness ==
    /\ output # Nil
    /\ kind = "disk"
    /\ collector.config.LowSpaceWarning > collector.config.LowSpaceCritical
    /\ input.UsagePercent >= collector.config.LowSpaceCritical
    /\ input.UsagePercent < collector.config.LowSpaceWarning
    /\ output[1].DiskStatus = "Critical"

(***************************************************************************)
(* SpecTree: collectProcessTree on a flat process list.                    *)
(***************************************************************************)
RECURSIVE buildProcessTree(_, _, _)
RECURSIVE BuildLoop(_, _, _, _, _)

\* The node of a process, as a mutation would have it: always a leaf.
TreeInfoAlwaysLeaf(proc, maxDepth, children) ==
    [PID |-> proc.PID, Level |-> maxDepth, IsLeaf |-> TRUE, Children |-> children]
\* The node buildProcessTree makes of the process proc, given the subtrees
\* of its children.
TreeInfo(proc, maxDepth, children) ==
    [PID |-> proc.PID, Level |-> maxDepth,
     IsLeaf |-> ~(Len(children) > 0), Children |-> children]

\* tree = append(tree, treeInfo), as a mutation would have it: at the front.
PrependNode(tree, treeInfo) == <<treeInfo>> \o tree
\* tree = append(tree, treeInfo).
AppendNode(tree, treeInfo) == Append(tree, treeInfo)

\* The loop of buildProcessTree from processes[i] on, tree being what the
\* earlier iterations have appended.
BuildLoop(processes, i, parentPID, maxDepth, tree) ==
    IF i > Len(processes) THEN tree
    ELSE IF processes[i].ParentPID = parentPID
    THEN LET children == buildProcessTree(processes, processes[i].PID, maxDepth - 1)
             treeInfo == TreeInfo(processes[i], maxDepth, children)
         IN  BuildLoop(processes, i + 1, parentPID, maxDepth, AppendNode(tree, treeInfo))
    ELSE BuildLoop(processes, i + 1, parentPID, maxDepth, tree)

buildProcessTree(processes, parentPID, maxDepth) ==
    IF maxDepth <= 0 THEN <<>>
    ELSE BuildLoop(processes, 1, parentPID, maxDepth, <<>>)

collectProcessTree(c, data) ==
    [ProcessTree |-> buildProcessTree(data.ProcessInfos, 0, c.config.MaxTreeDepth)]

\* PIDs of the processes of a list; 0 is the PID of the idle process and the
\* ParentPID of a process whose parent could not be looked up.
TreePIDs == {0, 1, 2, 3}

\* Only the process with PID 0 is listed as its own parent.
TreeProcesses ==
    { q \in [PID : TreePIDs, ParentPID : TreePIDs \cup {NoSuchPID}] :
        q.PID # 0 => q.ParentPID # q.PID }

\* Process lists of at most MaxProcs processes with distinct PIDs.
ProcessLists ==
    { l \in UNION { [1..n -> TreeProcesses] : n \in 0..MaxProcs } :
        \A i, j \in 1..Len(l) : i # j => l[i].PID # l[j].PID }

\* The values of MaxTreeDepth explored: the constructor's, smaller ones, and
\* a negative one.
TreeDepths == (0 - 1)..DefaultMaxTreeDepth

InitTree ==
    /\ kind = "process"
    /\ \E d \in TreeDepths :
          collector = [NewProcessMonitorCollector EXCEPT !.config.MaxTreeDepth = d]
    /\ now = 0
    /\ result = [data |-> Nil, err |-> NoError]
    /\ appended = [s \in SeriesOf(NewProcessMonitorCollector.history) |-> <<>>]
    /\ \E l \in ProcessLists : input = [ProcessInfos |-> l]
    /\ output = Nil
    /\ pc = [g \in Goroutines |-> 0]
    /\ local = [g \in Goroutines |-> Nil]
    /\ observed = Nil
    /\ manager = Nil /\ screen = Nil

BuildTree ==
    /\ output = Nil
    /\ output' = collectProcessTree(collector, input)
    /\ UNCHANGED <<kind, collector, now, result, appended, input, pc, local, observed, manager, screen>>

NextTree == BuildTree

SpecTree == InitTree /\ [][NextTree]_vars

\* How many nodes of a forest carry the PID pid.
RECURSIVE Occurrences(_, _)
Occurrences(forest, pid) ==
    IF Len(forest) = 0 THEN 0
    ELSE (IF forest[1].PID = pid THEN 1 ELSE 0)
         + Occurrences(forest[1].Children, pid)
         + Occurrences(Tail(forest), pid)

PIDsOf(l) == {l[i].PID : i \in 1..Len(l)}

RootPIDs(forest) == {forest[i].PID : i \in 1..Len(forest)}

\* C4: with MaxTreeDepth >= 1 every process of the list occurs exactly once
\* in the forest, whatever its ParentPID (dangling, or on a parent cycle).
C4_EveryProcessOnce ==
    (output # Nil /\ collector.config.MaxTreeDepth >= 1) =>
        \A i \in 1..Len(input.ProcessInfos) :
            Occurrences(output.ProcessTree, input.ProcessInfos[i].PID) = 1

\* C5: the roots of the forest are exactly the processes whose ParentPID is
\* the PID of no process of the list.
C5_RootsAreParentless ==
    (output # Nil /\ collector.config.MaxTreeDepth >= 1) =>
        RootPIDs(output.ProcessTree) =
            {input.ProcessInfos[i].PID : i \in
                {j \in 1..Len(input.ProcessInfos) :
                    input.ProcessInfos[j].ParentPID \notin PIDsOf(input.ProcessInfos)}}

\* Whether no PID of seen, and no PID twice, lies on a path from a root of
\* the forest to a leaf.
RECURSIVE NoRepeatOnPath(_, _)
NoRepeatOnPath(forest, seen) ==
    \A i \in 1..Len(forest) :
        /\ forest[i].PID \notin seen
        /\ NoRepeatOnPath(forest[i].Children, seen \cup {forest[i].PID})

\* C17: no PID occurs twice on a path from a root to a leaf of the forest.
C17_NoPIDTwiceOnPath ==
    output # Nil => NoRepeatOnPath(output.ProcessTree, {})

\* Whether the nodes of the forest are at the level given, their children one
\* below, no level under 1, and IsLeaf set exactly on the childless nodes.
RECURSIVE Levelled(_, _)
Levelled(forest, level) ==
    \A i \in 1..Len(forest) :
        /\ forest[i].Level = level
        /\ forest[i].Level >= 1
        /\ forest[i].IsLeaf = (Len(forest[i].Children) = 0)
        /\ Levelled(forest[i].Children, level - 1)

\* C18: the roots are at Level MaxTreeDepth, every child one level below its
\* parent, no node below Level 1, IsLeaf exactly on the nodes without
\* children; MaxTreeDepth <= 0 gives the empty forest.
C18_LevelsAndLeaves ==
    output # Nil =>
        /\ Levelled(output.ProcessTree, collector.config.MaxTreeDepth)
        /\ collector.config.MaxTreeDepth <= 0 => output.ProcessTree = <<>>

\* C18 witness: with MaxTreeDepth 2 a root has a child at Level 1 that is a
\* leaf although the list holds a child of it, which is left out.
C18_Witness ==
    /\ output # Nil
    /\ collector.config.MaxTreeDepth = 2
    /\ \E i \in 1..Len(output.ProcessTree) :
          LET root == output.ProcessTree[i] IN
          /\ ~root.IsLeaf
          /\ \E j \in 1..Len(root.Children) :
                /\ root.Children[j].Level = 1
                /\ root.Children[j].IsLeaf
                /\ \E n \in 1..Len(input.ProcessInfos) :
                      /\ input.ProcessInfos[n].ParentPID = root.Children[j].PID
                      /\ input.ProcessInfos[n].PID # root.Children[j].PID
                      /\ Occurrences(output.ProcessTree, input.ProcessInfos[n].PID) = 0

\* The place of the process with PID pid in the list l.
IndexOfPID(l, pid) == CHOOSE i \in 1..Len(l) : l[i].PID = pid

\* Whether the roots of the forest, and the children of every node, stand in
\* the order of the list l.
RECURSIVE InInputOrder(_, _)
InInputOrder(forest, l) ==
    /\ \A a \in 1..Len(forest) : \A b \in 1..Len(forest) :
          a < b => IndexOfPID(l, forest[a].PID) < IndexOfPID(l, forest[b].PID)
    /\ \A i \in 1..Len(forest) : InInputOrder(forest[i].Children, l)

\* C19: the roots and the children of every node are listed in the order in
\* which their processes occur in the input list.
C19_SiblingsInInputOrder ==
    output # Nil => InInputOrder(output.ProcessTree, input.ProcessInfos)

\* C19 witness: a root with two children, the one with the higher PID first
\* in the list and first among the children.
C19_Witness ==
    /\ output # Nil
    /\ \E i \in 1..Len(output.ProcessTree) :
          LET children == output.ProcessTree[i].Children IN
          /\ Len(children) = 2
          /\ children[1].PID > children[2].PID

(***************************************************************************)
(* SpecTreeSteps: buildProcessTree step by step.  local is the call stack, *)
(* the innermost activation last; an activation is [parentPID, maxDepth,   *)
(* i, tree]: its arguments, the index of the loop over processes and the   *)
(* tree built so far.  Every step that can be taken is taken in the end    *)
(* (the function runs in one goroutine that is never suspended for good).  *)
(***************************************************************************)
\* Deepest call stack explored; beyond it no call is made.
MaxStack == DefaultMaxTreeDepth + 2

\* The maxDepth argument of the recursive call, as a mutation would have it.
CalleeDepthSame(maxDepth) == maxDepth
\* The maxDepth argument of the recursive call.
CalleeDepth(maxDepth) == maxDepth - 1

StepLists == {l \in ProcessLists : Len(l) <= StepProcs}

InitTreeSteps ==
    /\ kind = "process"
    /\ \E d \in TreeDepths :
          collector = [NewProcessMonitorCollector EXCEPT !.config.MaxTreeDepth = d]
    /\ now = 0
    /\ result = [data |-> Nil, err |-> NoError]
    /\ appended = [s \in SeriesOf(NewProcessMonitorCollector.history) |-> <<>>]
    /\ \E l \in StepLists : input = [ProcessInfos |-> l]
    /\ output = Nil
    /\ pc = [g \in Goroutines |-> 0]
    /\ local = << [parentPID |-> 0, maxDepth |-> collector.config.MaxTreeDepth,
                   i |-> 1, tree |-> <<>>] >>
    /\ observed = Nil
    /\ manager = Nil /\ screen = Nil

\* The innermost activation returns children: to collectProcessTree, which
\* stores the forest, or to the activation that called it, which appends the
\* node of its process and goes on with its loop.
TreeReturns(children) ==
    IF Len(local) = 1
    THEN /\ output' = [ProcessTree |-> children]
         /\ local' = <<>>
    ELSE LET caller == local[Len(local) - 1]
             treeInfo == TreeInfo(input.ProcessInfos[caller.i], caller.maxDepth, children)
         IN  /\ local' = [SubSeq(local, 1, Len(local) - 1) EXCEPT ![Len(local) - 1] =
                             [caller EXCEPT !.tree = AppendNode(caller.tree, treeInfo),
                                            !.i = caller.i + 1]]
             /\ UNCHANGED output

\* if maxDepth <= 0 { return []ProcessTreeInfo{} }
TreeReturnEmpty ==
    /\ local # <<>>
    /\ local[Len(local)].maxDepth <= 0
    /\ TreeReturns(<<>>)
    /\ UNCHANGED <<kind, collector, now, result, appended, input, pc, observed, manager, screen>>

\* The loop passes a process with another parent.
TreeSkip ==
    /\ local # <<>>
    /\ LET f == local[Len(local)] IN
       /\ f.maxDepth > 0
       /\ f.i <= Len(input.ProcessInfos)
       /\ input.ProcessInfos[f.i].ParentPID # f.parentPID
       /\ local' = [local EXCEPT ![Len(local)].i = f.i + 1]
    /\ UNCHANGED <<kind, collector, now, result, appended, input, output, pc, observed, manager, screen>>

\* The loop finds a child of parentPID and calls buildProcessTree for it.
TreeCall ==
    /\ local # <<>>
    /\ Len(local) < MaxStack
    /\ LET f == local[Len(local)] IN
       /\ f.maxDepth > 0
       /\ f.i <= Len(input.ProcessInfos)
       /\ input.ProcessInfos[f.i].ParentPID = f.parentPID
       /\ local' = Append(local, [parentPID |-> input.ProcessInfos[f.i].PID,
                                  maxDepth |-> CalleeDepth(f.maxDepth),
                                  i |-> 1, tree |-> <<>>])
    /\ UNCHANGED <<kind, collector, now, result, appended, input, output, pc, observed, manager, screen>>

\* The loop is over: return tree.
TreeReturn ==
    /\ local # <<>>
    /\ LET f == local[Len(local)] IN
       /\ f.maxDepth > 0
       /\ f.i > Len(input.ProcessInfos)
       /\ TreeReturns(f.tree)
    /\ UNCHANGED <<kind, collector, now, result, appended, input, pc, observed, manager, screen>>

NextTreeSteps == TreeReturnEmpty \/ TreeSkip \/ TreeCall \/ TreeReturn

SpecTreeSteps == InitTreeSteps /\ [][NextTreeSteps]_vars /\ WF_vars(NextTreeSteps)

\* C16: buildProcessTree terminates: its call stack never holds more than
\* MaxTreeDepth + 1 activations, in the end the forest is returned, and it is
\* the forest the recursive definition gives.
C16_BuildTerminates ==
    /\ [](Len(local) <= 1 \/ Len(local) <= collector.config.MaxTreeDepth + 1)
    /\ <>(output # Nil)
    /\ [](output # Nil => output = collectProcessTree(collector, input))

\* C16 witness: the forest has been returned for a list with a process that
\* is its own parent (PID 0) and with the default depth.
C16_Witness ==
    /\ output # Nil
    /\ local = <<>>
    /\ collector.config.MaxTreeDepth = DefaultMaxTreeDepth
    /\ \E n \in 1..Len(input.ProcessInfos) :
          input.ProcessInfos[n].PID = input.ProcessInfos[n].ParentPID
    /\ Len(output.ProcessTree) > 0

(***************************************************************************)
(* SpecTop: collectTopProcesses on a process list.                         *)
(***************************************************************************)
CPUKey(q) == q.CPUUsage
MemoryKey(q) == q.MemoryUsage
IOKey(q) == q.IOReadBytes + q.IOWriteBytes
ThreadKey(q) == q.Threads

\* The rankings of collectTopProcesses, each with its sort key.
Dimensions == {"TopCPUProcesses", "TopMemoryProcesses", "TopIOProcesses", "TopThreadProcesses"}

KeyOf(d, q) ==
    CASE d = "TopCPUProcesses" -> CPUKey(q)
      [] d = "TopMemoryProcesses" -> MemoryKey(q)
      [] d = "TopIOProcesses" -> IOKey(q)
      [] d = "TopThreadProcesses" -> ThreadKey(q)

\* The permutations of a list.
Orderings(l) ==
    { [i \in 1..Len(l) |-> l[f[i]]] :
        f \in { g \in [1..Len(l) -> 1..Len(l)] :
                  \A i, j \in 1..Len(l) : i # j => g[i] # g[j] } }

\* sort.Slice(l, func(i, j) bool { return key(l[i]) > key(l[j]) }) with the
\* key of the ranking d: the slice ends up as a permutation in which no
\* element is less than an earlier one; sort.Slice leaves the order of equal
\* elements open.
SortSlice(l, d) ==
    { r \in Orderings(l) :
        \A i, j \in 1..Len(r) : i < j => ~(KeyOf(d, r[j]) > KeyOf(d, r[i])) }

\* A cut that keeps the end of the list.
KeepLast(l, n) == IF Len(l) > n THEN SubSeq(l, Len(l) - n + 1, Len(l)) ELSE l

\* if len(l) > MaxProcesses { l = l[:MaxProcesses] }
Truncate(l, n) == IF Len(l) > n THEN SubSeq(l, 1, n) ELSE l

\* One ranking, as a mutation would have it: data.ProcessInfos itself is
\* sorted and the ranking is cut from it.
RankInPlace(data, d, n) ==
    { [data EXCEPT !.ProcessInfos = sorted, ![d] = Truncate(sorted, n)] :
        sorted \in SortSlice(data.ProcessInfos, d) }

\* One ranking of collectTopProcesses: a new slice is made, data.ProcessInfos
\* is copied into it, the copy is sorted and cut, and data's field d is set
\* to it.  The set of what data can be afterwards.
Rank(data, d, n) ==
    LET copy == [i \in 1..Len(data.ProcessInfos) |-> data.ProcessInfos[i]] IN
    { [data EXCEPT ![d] = Truncate(sorted, n)] : sorted \in SortSlice(copy, d) }

\* What collectTopProcesses can leave in data: the four rankings, one after
\* the other, each on the data the one before left.
collectTopProcesses(c, data) ==
    LET n == c.config.MaxProcesses
        fresh == [f \in {"ProcessInfos"} \cup Dimensions |->
                     IF f = "ProcessInfos" THEN data.ProcessInfos ELSE <<>>]
        cpu == Rank(fresh, "TopCPUProcesses", n)
        mem == UNION { Rank(x, "TopMemoryProcesses", n) : x \in cpu }
        io == UNION { Rank(x, "TopIOProcesses", n) : x \in mem }
    IN  UNION { Rank(x, "TopThreadProcesses", n) : x \in io }

\* The kinds of process a list is drawn from: busy, moderate, idle.
ProcessProfiles ==
    { [CPUUsage |-> 90, MemoryUsage |-> 10, IOReadBytes |-> 0, Threads |-> 8],
      [CPUUsage |-> 50, MemoryUsage |-> 40, IOReadBytes |-> 1, Threads |-> 4],
      [CPUUsage |-> 10, MemoryUsage |-> 70, IOReadBytes |-> 0, Threads |-> 4] }

\* The i-th process of a list: its PID is i, and its memory use and bytes
\* written differ from those of the other processes of its profile.
ProcessInfo(i, profile) ==
    [PID |-> i, CPUUsage |-> profile.CPUUsage, MemoryUsage |-> profile.MemoryUsage + i,
     IOReadBytes |-> profile.IOReadBytes, IOWriteBytes |-> i, Threads |-> profile.Threads]

RankedLists ==
    { [i \in 1..Len(f) |-> ProcessInfo(i, f[i])] :
        f \in UNION { [1..n -> ProcessProfiles] : n \in 0..MaxProcs } }

InitTop ==
    /\ kind = "process"
    /\ \E n \in 0..(MaxProcs + 1) :
          collector = [NewProcessMonitorCollector EXCEPT !.config.MaxProcesses = n]
    /\ now = 0
    /\ result = [data |-> Nil, err |-> NoError]
    /\ appended = [s \in SeriesOf(NewProcessMonitorCollector.history) |-> <<>>]
    /\ \E l \in RankedLists : input = [ProcessInfos |-> l]
    /\ output = Nil
    /\ pc = [g \in Goroutines |-> 0]
    /\ local = [g \in Goroutines |-> Nil]
    /\ observed = Nil
    /\ manager = Nil /\ screen = Nil

RankTop ==
    /\ output = Nil
    /\ output' \in collectTopProcesses(collector, input)
    /\ UNCHANGED <<kind, collector, now, result, appended, input, pc, local, observed, manager, screen>>

NextTop == RankTop

SpecTop == InitTop /\ [][NextTop]_vars

Elements(l) == {l[i] : i \in 1..Len(l)}

\* Where the process q stands in the list l.
Position(l, q) == CHOOSE i \in 1..Len(l) : l[i] = q

\* C6: in every ranking, processes with equal keys stand in the order they
\* have in the input list, and of equal keys the earlier process is the one
\* that makes the cut.
C6_TiesKeepInputOrder ==
    output # Nil =>
        \A d \in Dimensions :
            LET r == output[d]
                l == input.ProcessInfos
            IN  /\ \A i, j \in 1..Len(r) :
                      (i < j /\ KeyOf(d, r[i]) = KeyOf(d, r[j])) =>
                          Position(l, r[i]) < Position(l, r[j])
                /\ \A q \in Elements(l) \ Elements(r) : \A i \in 1..Len(r) :
                      KeyOf(d, q) = KeyOf(d, r[i]) => Position(l, r[i]) < Position(l, q)

\* C7: each ranking is sorted in non-increasing order of its key, has
\* min(MaxProcesses, len(ProcessInfos)) entries, each a different process of
\* the list, and no process left out has a larger key than one taken in.
C7_RankingIsTopN ==
    output # Nil =>
        \A d \in Dimensions :
            LET r == output[d]
                l == input.ProcessInfos
            IN  /\ \A i, j \in 1..Len(r) : i < j => KeyOf(d, r[i]) >= KeyOf(d, r[j])
                /\ Len(r) = Min(collector.config.MaxProcesses, Len(l))
                /\ Elements(r) \subseteq Elements(l)
                /\ Cardinality(Elements(r)) = Len(r)
                /\ \A q \in Elements(l) \ Elements(r) : \A i \in 1..Len(r) :
                      KeyOf(d, q) <= KeyOf(d, r[i])

\* C7 witness: a list longer than MaxProcesses that is not in ranking order
\* has been ranked and cut.
C7_Witness ==
    /\ output # Nil
    /\ collector.config.MaxProcesses >= 2
    /\ Len(input.ProcessInfos) > collector.config.MaxProcesses
    /\ Len(output.TopCPUProcesses) = collector.config.MaxProcesses
    /\ CPUKey(input.ProcessInfos[1]) < CPUKey(input.ProcessInfos[Len(input.ProcessInfos)])
    /\ output.TopCPUProcesses[1] # input.ProcessInfos[1]

\* C20: collectTopProcesses leaves data.ProcessInfos as it was, in content
\* and order, and every ranking is a descending order of that list, cut at
\* MaxProcesses, whatever the rankings before it were.
C20_ProcessInfosUntouched ==
    output # Nil =>
        /\ output.ProcessInfos = input.ProcessInfos
        /\ \A d \in Dimensions :
              output[d] \in { Truncate(sorted, collector.config.MaxProcesses) :
                                sorted \in SortSlice(input.ProcessInfos, d) }

\* C20 witness: the process with the most CPU time is not the first of the
\* list, so the CPU ranking starts with another process than the list does,
\* and the list has stayed as it was.
C20_Witness ==
    /\ output # Nil
    /\ Len(input.ProcessInfos) >= 2
    /\ Len(output.TopCPUProcesses) >= 1
    /\ output.TopCPUProcesses[1] # input.ProcessInfos[1]
    /\ output.ProcessInfos = input.ProcessInfos

(***************************************************************************)
(* SpecConc: one collector shared, without a lock, by the goroutine of the *)
(* monitoring loop, a second goroutine that calls Collect...Data (the      *)
(* export ticker of StartContinuousExport, or GetCurrentData, Get...Status,*)
(* Get...Alerts, ExportToFile called from elsewhere) and a reader of the   *)
(* history pointer that Get...UsageHistory returned.  The statements of    *)
(* updateHistory are the steps; the goroutines interleave between them.    *)
(***************************************************************************)
ConcKinds == {"cpu", "disk"}

TickData(k, p, c) ==
    CASE k = "disk" -> analyzeDiskStatus(DiskData(p, c.config), c.config)
      [] k = "memory" -> analyzeMemoryStatus(MemoryData(p, c.config), c.config, c.history)
      [] k = "cpu" -> CPUData(p, c.config)
      [] k = "network" -> analyzeNetworkStatus(NetworkData(p, c.config), c.config)
      [] k = "process" -> analyzeProcessStatus(ProcessData(p, c.config), c.config)

\* The collector after n ticks of the loop alone, each reading the value v.
RECURSIVE Ticked(_, _, _)
Ticked(k, n, v) ==
    IF n = 0 THEN NewCollector(k)
    ELSE CollectMonitorData(k, Ticked(k, n - 1, v), [fail |-> "none", v |-> v, n |-> 1], n).collector

\* Ticks the loop has made alone before the goroutines interleave: the
\* history is one point short of its capacity.
TicksBefore == MaxDataPoints - 1

InitConc ==
    /\ kind \in ConcKinds
    /\ \E v \in Values : collector = Ticked(kind, TicksBefore, v)
    /\ now = TicksBefore
    /\ result = [data |-> Nil, err |-> NoError]
    /\ appended = [s \in SeriesOf(NewCollector(kind).history) |-> <<>>]
    /\ input = Nil /\ output = Nil
    /\ pc = [g \in Goroutines |-> 0]
    /\ local = [g \in Goroutines |-> Nil]
    /\ observed = Nil
    /\ manager = Nil /\ screen = Nil

\* Goroutine g calls Collect...Data: the collection steps and the status
\* analysis run on g's own data, and g enters updateHistory, reading the clock.
EnterUpdateHistory(g) ==
    /\ pc[g] = 0
    /\ now < TicksBefore + MaxCalls
    /\ \E p \in Providers(kind) :
          /\ CollectError(StepsOf(kind), collector.config, p) = NoError
          /\ local' = [local EXCEPT ![g] = [data |-> TickData(kind, p, collector),
                                            over |-> FALSE, t |-> now + 1]]
    /\ now' = now + 1
    /\ pc' = [pc EXCEPT ![g] = 1]
    /\ UNCHANGED <<kind, collector, result, appended, input, output, observed, manager, screen>>

\* Goroutine g executes its next statement of updateHistory on the shared history.
StepUpdateHistory(g) ==
    /\ pc[g] > 0
    /\ LET stmts == UpdateHistoryOf(kind)
           st == ExecStmt([h |-> collector.history, over |-> local[g].over],
                          stmts[pc[g]], local[g].data, local[g].t)
       IN  /\ collector' = [collector EXCEPT !.history = st.h]
           /\ IF pc[g] = Len(stmts)
              THEN /\ pc' = [pc EXCEPT ![g] = 0]
                   /\ local' = [local EXCEPT ![g] = Nil]
              ELSE /\ pc' = [pc EXCEPT ![g] = @ + 1]
                   /\ local' = [local EXCEPT ![g].over = st.over]
    /\ UNCHANGED <<kind, now, result, appended, input, output, observed, manager, screen>>

\* What a reader finds out about a history h: whether all series are as long
\* as Timestamps, whether no series is longer than MaxDataPoints, and whether
\* DataPointCount is the number of timestamps.
Inspect(h) ==
    [aligned |-> \A s \in SeriesOf(h) : Len(h[s]) = Len(h.Timestamps),
     bounded |-> \A s \in SeriesOf(h) : Len(h[s]) <= h.MaxDataPoints,
     counted |-> h.DataPointCount = Len(h.Timestamps)]

\* The reader looks at the history behind the pointer Get...UsageHistory gave it.
ReadHistory ==
    /\ observed = Nil
    /\ observed' = Inspect(collector.history)
    /\ UNCHANGED <<kind, collector, now, result, appended, input, output, pc, local,
                   manager, screen>>

NextConc ==
    \/ \E g \in Goroutines : EnterUpdateHistory(g)
    \/ \E g \in Goroutines : StepUpdateHistory(g)
    \/ ReadHistory

SpecConc == InitConc /\ [][NextConc]_vars

\* C9: at no time are two goroutines inside updateHistory of the collector.
C9_UpdateHistorySerialized ==
    Cardinality({g \in Goroutines : pc[g] > 0}) <= 1

\* C10: what the reader sees is never a history under construction.
C10_ReaderSeesPublishedHistory ==
    observed # Nil => (observed.aligned /\ observed.bounded /\ observed.counted)


(***************************************************************************)
(* SpecLive: one manager in live monitoring.  The goroutine "main" calls   *)
(* StartLiveMonitoring, which starts the goroutine "loop"; the goroutine   *)
(* "stopper" calls StopMonitoring; the runtime fires the refresh ticker    *)
(* and delivers SIGINT/SIGTERM.  The goroutines interleave between the     *)
(* statements of StartLiveMonitoring and StopMonitoring, and between the   *)
(* steps of a tick (collection, the statements of updateHistory, display,  *)
(* export).                                                                *)
(*   manager.stopChannel, .tickerC, .sigChan: number of values buffered in *)
(*   the channel (each has capacity 1); .lastExportTime: 0 is the zero     *)
(*   time; screen: the data last displayed and the number of collection    *)
(*   errors printed.                                                       *)
(***************************************************************************)
LiveGoroutines == {"main", "loop", "stopper"}

NewManager ==
    [isRunning |-> FALSE, stopChannel |-> 0, refreshTicker |-> "nil", tickerC |-> 0,
     sigChan |-> 0, lastExportTime |-> 0]

\* The positions of the loop goroutine inside updateAndDisplay.
TickPositions == {"collect", "updateHistory", "display", "export"}

\* The positions at which the loop goroutine receives from stopChannel and
\* sigChan, as a mutation would have it: also between the statements of a tick.
SelectPositionsMidTick == {"select", "updateHistory"}
\* The positions at which the loop goroutine receives from stopChannel and
\* sigChan: the select statement at the head of its for loop.
SelectPositions == {"select"}

\* Where updateAndDisplay leaves the loop goroutine when the collection
\* failed, as a mutation would have it: the loop is left.
AfterCollectErrorExit(pcs) == [pcs EXCEPT !["loop"] = "exited"]
\* Where updateAndDisplay leaves the loop goroutine when the collection
\* failed: it prints the error and returns to the loop's select.
AfterCollectError(pcs) == [pcs EXCEPT !["loop"] = "select"]

\* The provider readings explored in live monitoring: any step may fail, the
\* platform reports one of two values.
LiveProviders(k) == {p \in Providers(k) : p.v \in {10, 20}}

InitLive ==
    /\ kind \in Kinds
    /\ collector = NewCollector(kind)
    /\ now = 0
    /\ result = [data |-> Nil, err |-> NoError]
    /\ appended = [s \in SeriesOf(NewCollector(kind).history) |-> <<>>]
    /\ input = Nil /\ output = Nil
    /\ pc = [main |-> "idle", loop |-> "none", stopper |-> "idle"]
    /\ local = [g \in LiveGoroutines |-> Nil]
    /\ observed = Nil
    /\ manager = NewManager
    /\ screen = [shown |-> Nil, errors |-> 0]

\* StartLiveMonitoring up to the creation of the ticker: the isRunning check
\* and isRunning = true.
StartLiveMonitoring ==
    /\ pc["main"] = "idle"
    /\ ~manager.isRunning
    /\ manager' = [manager EXCEPT !.isRunning = TRUE]
    /\ pc' = [pc EXCEPT !["main"] = "starting"]
    /\ UNCHANGED <<kind, collector, now, result, appended, input, output, local,
                   observed, screen>>

\* StartLiveMonitoring from time.NewTicker on: the ticker and the signal
\* channel are created, the loop goroutine is started, the caller blocks on
\* stopChannel.
StartLoop ==
    /\ pc["main"] = "starting"
    /\ manager' = [manager EXCEPT !.refreshTicker = "running", !.tickerC = 0,
                                  !.sigChan = 0]
    /\ pc' = [pc EXCEPT !["main"] = "wait", !["loop"] = "select"]
    /\ UNCHANGED <<kind, collector, now, result, appended, input, output, local,
                   observed, screen>>

\* The caller of StartLiveMonitoring receives from stopChannel and returns nil.
ReturnFromStart ==
    /\ pc["main"] = "wait"
    /\ manager.stopChannel = 1
    /\ manager' = [manager EXCEPT !.stopChannel = 0]
    /\ pc' = [pc EXCEPT !["main"] = "returned"]
    /\ UNCHANGED <<kind, collector, now, result, appended, input, output, local,
                   observed, screen>>

\* The runtime sends a tick on the ticker's channel (dropped when one waits).
TickerFires ==
    /\ manager.refreshTicker = "running"
    /\ manager.tickerC = 0
    /\ manager' = [manager EXCEPT !.tickerC = 1]
    /\ UNCHANGED <<kind, collector, now, result, appended, input, output, pc, local,
                   observed, screen>>

\* SIGINT or SIGTERM arrives: signal.Notify passes it to sigChan (dropped
\* when one waits).
Signal ==
    /\ pc["loop"] \notin {"none", "exited"}
    /\ manager.sigChan = 0
    /\ manager' = [manager EXCEPT !.sigChan = 1]
    /\ UNCHANGED <<kind, collector, now, result, appended, input, output, pc, local,
                   observed, screen>>

\* The loop's select takes a tick: updateAndDisplay is called.
LoopTick ==
    /\ pc["loop"] = "select"
    /\ manager.tickerC = 1
    /\ (now < LiveTicks \/ screen.errors < MaxFailures)
    /\ manager' = [manager EXCEPT !.tickerC = 0]
    /\ pc' = [pc EXCEPT !["loop"] = "collect"]
    /\ UNCHANGED <<kind, collector, now, result, appended, input, output, local,
                   observed, screen>>

\* The loop's select takes the stop token: the loop returns.
LoopStop ==
    /\ pc["loop"] \in SelectPositions
    /\ manager.stopChannel = 1
    /\ manager' = [manager EXCEPT !.stopChannel = 0]
    /\ pc' = [pc EXCEPT !["loop"] = "exited"]
    /\ UNCHANGED <<kind, collector, now, result, appended, input, output, local,
                   observed, screen>>

\* The loop's select takes a signal: the loop calls StopMonitoring.
LoopSignal ==
    /\ pc["loop"] \in SelectPositions
    /\ manager.sigChan = 1
    /\ manager' = [manager EXCEPT !.sigChan = 0]
    /\ pc' = [pc EXCEPT !["loop"] = "stopCheck"]
    /\ UNCHANGED <<kind, collector, now, result, appended, input, output, local,
                   observed, screen>>

\* Another goroutine calls StopMonitoring.
CallStopMonitoring ==
    /\ pc["stopper"] = "idle"
    /\ pc' = [pc EXCEPT !["stopper"] = "stopCheck"]
    /\ UNCHANGED <<kind, collector, now, result, appended, input, output, local,
                   observed, manager, screen>>

\* Where goroutine g is when its StopMonitoring call has returned.
AfterStopMonitoring(g) == IF g = "loop" THEN "exited" ELSE "idle"

\* StopMonitoring: if !manager.isRunning { return }.
StopCheck(g) ==
    /\ pc[g] = "stopCheck"
    /\ pc' = [pc EXCEPT ![g] = IF manager.isRunning THEN "stopSet"
                                ELSE AfterStopMonitoring(g)]
    /\ UNCHANGED <<kind, collector, now, result, appended, input, output, local,
                   observed, manager, screen>>

\* StopMonitoring: isRunning = false, and the ticker, if there is one, is
\* stopped.  A tick already in the ticker's channel stays there or not,
\* depending on the Go release.
StopSet(g) ==
    /\ pc[g] = "stopSet"
    /\ \E c \in {manager.tickerC, 0} :
          manager' = IF manager.refreshTicker = "nil"
                     THEN [manager EXCEPT !.isRunning = FALSE]
                     ELSE [manager EXCEPT !.isRunning = FALSE,
                                          !.refreshTicker = "stopped", !.tickerC = c]
    /\ pc' = [pc EXCEPT ![g] = "stopSend"]
    /\ UNCHANGED <<kind, collector, now, result, appended, input, output, local,
                   observed, screen>>

\* StopMonitoring: select { case stopChannel <- true: default: }, and return.
StopSend(g) ==
    /\ pc[g] = "stopSend"
    /\ manager' = [manager EXCEPT !.stopChannel = 1]
    /\ pc' = [pc EXCEPT ![g] = AfterStopMonitoring(g)]
    /\ UNCHANGED <<kind, collector, now, result, appended, input, output, local,
                   observed, screen>>


\* updateAndDisplay calls Collect...Data: the collection steps.  When one
\* fails the error is printed and updateAndDisplay returns; otherwise the
\* status is analysed and updateHistory is entered, reading the clock.
LoopCollect ==
    /\ pc["loop"] = "collect"
    /\ \E p \in LiveProviders(kind) :
          LET err == CollectError(StepsOf(kind), collector.config, p) IN
          IF err # NoError
          THEN /\ screen.errors < MaxFailures
               /\ result' = [data |-> Nil, err |-> err]
               /\ screen' = [screen EXCEPT !.errors = @ + 1]
               /\ pc' = AfterCollectError(pc)
               /\ UNCHANGED <<now, local>>
          ELSE /\ now < LiveTicks
               /\ local' = [local EXCEPT !["loop"] =
                               [data |-> TickData(kind, p, collector), over |-> FALSE,
                                t |-> now + 1, stmt |-> 1]]
               /\ now' = now + 1
               /\ pc' = [pc EXCEPT !["loop"] = "updateHistory"]
               /\ UNCHANGED <<result, screen>>
    /\ UNCHANGED <<kind, collector, appended, input, output, observed, manager>>

\* The loop executes its next statement of updateHistory; after the last one
\* Collect...Data returns the data.
LoopUpdateHistory ==
    /\ pc["loop"] = "updateHistory"
    /\ LET stmts == UpdateHistoryOf(kind)
           l == local["loop"]
           st == ExecStmt([h |-> collector.history, over |-> l.over],
                          stmts[l.stmt], l.data, l.t)
       IN  /\ collector' = [collector EXCEPT !.history = st.h]
           /\ IF l.stmt = Len(stmts)
              THEN /\ pc' = [pc EXCEPT !["loop"] = "display"]
                   /\ result' = [data |-> l.data, err |-> NoError]
                   /\ local' = local
              ELSE /\ local' = [local EXCEPT !["loop"].over = st.over,
                                             !["loop"].stmt = @ + 1]
                   /\ UNCHANGED <<pc, result>>
    /\ UNCHANGED <<kind, now, appended, input, output, observed, manager, screen>>

\* updateAndDisplay displays the data.
LoopDisplay ==
    /\ pc["loop"] = "display"
    /\ screen' = [screen EXCEPT !.shown = local["loop"].data]
    /\ pc' = [pc EXCEPT !["loop"] = "export"]
    /\ UNCHANGED <<kind, collector, now, result, appended, input, output, local,
                   observed, manager>>

\* Whether exportDataIfNeeded exports at time t, as a mutation would have
\* it: whenever export is enabled.
ExportIsDueWhenEnabled(m, cfg, t) == cfg.ExportToFile
\* Whether exportDataIfNeeded exports at time t.
ExportIsDue(m, cfg, t) ==
    /\ cfg.ExportToFile
    /\ (m.lastExportTime = 0 \/ t - m.lastExportTime >= cfg.ExportInterval)

\* updateAndDisplay exports: the CPU manager on every tick, the others
\* through exportDataIfNeeded; then it returns to the loop's select.
LoopExport ==
    /\ pc["loop"] = "export"
    /\ manager' = IF kind # "cpu" /\ ExportIsDue(manager, collector.config, local["loop"].t)
                  THEN [manager EXCEPT !.lastExportTime = local["loop"].t]
                  ELSE manager
    /\ pc' = [pc EXCEPT !["loop"] = "select"]
    /\ local' = [local EXCEPT !["loop"] = Nil]
    /\ UNCHANGED <<kind, collector, now, result, appended, input, output,
                   observed, screen>>

NextLive ==
    \/ StartLiveMonitoring
    \/ StartLoop
    \/ ReturnFromStart
    \/ TickerFires
    \/ Signal
    \/ LoopTick
    \/ LoopStop
    \/ LoopSignal
    \/ CallStopMonitoring
    \/ \E g \in {"loop", "stopper"} : StopCheck(g)
    \/ \E g \in {"loop", "stopper"} : StopSet(g)
    \/ \E g \in {"loop", "stopper"} : StopSend(g)
    \/ LoopCollect
    \/ LoopUpdateHistory
    \/ LoopDisplay
    \/ LoopExport

SpecLive == InitLive /\ [][NextLive]_vars

\* Whether every series of h has n points, the newest stamped t.
Published(h, n, t) ==
    /\ \A s \in SeriesOf(h) : Len(h[s]) = n
    /\ h.DataPointCount = n
    /\ n > 0 => h.Timestamps[n] = t

\* C11: a stop takes effect only between ticks: the loop goroutine never
\* leaves from inside updateAndDisplay, and when it has left, no tick is in
\* flight and every tick that began its history update has appended to and
\* trimmed all series and has been displayed.
C11_StopBetweenTicks ==
    /\ [][pc["loop"] \in TickPositions =>
             pc'["loop"] \in TickPositions \cup {"select"}]_vars
    /\ [](pc["loop"] = "exited" =>
             /\ local["loop"] = Nil
             /\ Published(collector.history, Min(now, MaxDataPoints), now)
             /\ now > 0 => (screen.shown # Nil /\ result.err = NoError
                               => screen.shown = result.data))

\* C11 witness: StopMonitoring has run to its end while the loop is between
\* two statements of the history update of a tick that has to trim.
C11_Witness ==
    /\ pc["loop"] = "updateHistory"
    /\ local["loop"].stmt > 1
    /\ now > MaxDataPoints
    /\ ~manager.isRunning
    /\ manager.stopChannel = 1
    /\ pc["stopper"] = "idle"

\* C12: a tick whose collection fails changes neither the manager (isRunning
\* stays as it was) nor the collector and leaves the loop at its select; and
\* once a later tick has succeeded, its data is what is displayed and what
\* the history ends with.
C12_FailedTickKeepsMonitoring ==
    /\ [][(pc["loop"] = "collect" /\ screen'.errors > screen.errors) =>
             (manager' = manager /\ collector' = collector /\ pc'["loop"] = "select")]_vars
    /\ []((pc["loop"] = "select" /\ screen.errors > 0
             /\ result.err = NoError /\ result.data # Nil) =>
             /\ screen.shown = result.data
             /\ Published(collector.history, Min(now, MaxDataPoints), now))

\* C12 witness: the monitor is running, the loop is back at its select, a
\* collection error has been printed and the tick after it has succeeded.
C12_Witness ==
    /\ pc["loop"] = "select"
    /\ manager.isRunning
    /\ screen.errors > 0
    /\ result.err = NoError /\ result.data # Nil
    /\ now = 1

(***************************************************************************)
(* SpecBare: one disk, memory or network collector on a host that may      *)
(* report no disk I/O device, no network interface or a total memory of    *)
(* zero in a reading.                                                      *)
(***************************************************************************)
BareKinds == {"disk", "memory", "network"}

BareProviders(k) == [fail : StepNames(k) \cup {"none"}, v : Values, n : {0, 1}]

InitBare ==
    /\ kind \in BareKinds
    /\ collector = NewCollector(kind)
    /\ now = 0
    /\ result = [data |-> Nil, err |-> NoError]
    /\ appended = [s \in SeriesOf(NewCollector(kind).history) |-> <<>>]
    /\ input = Nil /\ output = Nil
    /\ pc = [g \in Goroutines |-> 0]
    /\ local = [g \in Goroutines |-> Nil]
    /\ observed = Nil
    /\ manager = Nil /\ screen = Nil

\* A call of Collect...Data; input keeps the reading it was given.
CollectBare ==
    /\ now < MaxTicks
    /\ \E p \in BareProviders(kind) :
          LET r == CollectMonitorData(kind, collector, p, now + 1) IN
          /\ collector' = r.collector
          /\ result' = [data |-> r.data, err |-> r.err]
          /\ now' = IF r.err = NoError THEN now + 1 ELSE now
          /\ appended' = IF r.err = NoError
                         THEN Recorded(appended, UpdateHistoryOf(kind),
                                       collector.history, r.data, now + 1)
                         ELSE appended
          /\ input' = p
    /\ UNCHANGED <<kind, output, pc, local, observed, manager, screen>>

NextBare == CollectBare

SpecBare == InitBare /\ [][NextBare]_vars

\* The series of a history other than its timestamps.
ValueSeries(h) == SeriesOf(h) \ {"Timestamps"}

\* C21: a history update never stores an invalid value: no series of the
\* history ever holds a point that is not a valid number (NaN or an
\* infinity), whatever the platform reported in the tick.
C21_NoInvalidValueStored ==
    LET h == collector.history IN
    \A s \in ValueSeries(h) : \A i \in 1..Len(h[s]) : IsValidNumber(h[s][i])

(***************************************************************************)
(* SpecReset: one CPU collector under Collect...Data calls, configuration  *)
(* changes and ResetHistory calls.  observed counts the resets and keeps   *)
(* the tick at which the last one was made.                                *)
(***************************************************************************)
\* The zero value of a history struct: nil slices, zero integers.
ZeroHistory(series) ==
    [s \in series \cup {"MaxDataPoints", "DataPointCount"} |->
        IF s \in {"MaxDataPoints", "DataPointCount"} THEN 0 ELSE <<>>]

ResetCPUHistoryZeroValue(h) == ZeroHistory(CPUSeries)

\* &CPUUsageHistory{MaxDataPoints: collector.history.MaxDataPoints, DataPointCount: 0}
ResetCPUHistory(h) ==
    [ZeroHistory(CPUSeries) EXCEPT !.MaxDataPoints = h.MaxDataPoints, !.DataPointCount = 0]

InitReset ==
    /\ kind = "cpu"
    /\ collector = NewCollector(kind)
    /\ now = 0
    /\ result = [data |-> Nil, err |-> NoError]
    /\ appended = Nil
    /\ input = Nil /\ output = Nil
    /\ pc = [g \in Goroutines |-> 0]
    /\ local = [g \in Goroutines |-> Nil]
    /\ observed = [resets |-> 0, at |-> 0]
    /\ manager = Nil /\ screen = Nil

\* A call of CollectCPUMonitorData.
CollectCPU ==
    /\ now < MaxTicks
    /\ \E p \in Providers(kind) :
          LET r == CollectCPUMonitorData(collector, p, now + 1) IN
          /\ collector' = r.collector
          /\ result' = [data |-> r.data, err |-> r.err]
          /\ now' = IF r.err = NoError THEN now + 1 ELSE now
    /\ UNCHANGED <<kind, appended, input, output, pc, local, observed, manager, screen>>

\* CPUMonitorManager.ResetHistory.
ResetHistory ==
    /\ observed.resets < MaxCalls
    /\ collector' = [collector EXCEPT !.history = ResetCPUHistory(@)]
    /\ observed' = [resets |-> observed.resets + 1, at |-> now]
    /\ UNCHANGED <<kind, now, result, appended, input, output, pc, local, manager, screen>>

NextReset == CollectCPU \/ SetConfig \/ ResetHistory

SpecReset == InitReset /\ [][NextReset]_vars

\* C22: ResetHistory on the CPU collector leaves every series empty and
\* DataPointCount = 0 while MaxDataPoints keeps the value it had before the
\* reset; the ticks after a reset fill the history again, one point a tick,
\* up to that same capacity.
C22_ResetKeepsCapacity ==
    /\ [][observed' # observed =>
             /\ \A s \in SeriesOf(collector'.history) : collector'.history[s] = <<>>
             /\ collector'.history.DataPointCount = 0
             /\ collector'.history.MaxDataPoints = collector.history.MaxDataPoints]_vars
    /\ [](observed.resets > 0 =>
             /\ collector.history.MaxDataPoints = MaxDataPoints
             /\ Len(collector.history.Timestamps)
                    = Min(now - observed.at, collector.history.MaxDataPoints)
             /\ collector.history.DataPointCount = Len(collector.history.Timestamps))

\* C22 witness: a history that held points was reset and the ticks after the
\* reset have filled it up to its capacity and evicted a point.
C22_Witness ==
    /\ observed.resets > 0
    /\ observed.at > 0
    /\ now - observed.at > MaxDataPoints
    /\ Len(collector.history.Timestamps) = collector.history.MaxDataPoints

(***************************************************************************)
(* SpecLeak: one memory collector whose history is long enough for the     *)
(* leak check of analyzeMemoryStatus to apply, under Collect...Data calls  *)
(* whose readings rise by one or stay where the last one was.              *)
(***************************************************************************)
\* Number of samples the leak check inspects.
LeakWindow == 10
\* Capacity of the history (100 in the source; the check needs more than 10).
LeakCapacity == 12
\* Number of Collect...Data calls explored.
LeakTicks == 13

LeakProviders(h) ==
    LET last == IF Len(h.TotalUsage) = 0 THEN 1 ELSE h.TotalUsage[Len(h.TotalUsage)]
    IN  [fail : {"none"}, v : {last, last + 1}, n : {1}]

InitLeak ==
    /\ kind = "memory"
    /\ collector = [NewMemoryMonitorCollector EXCEPT !.history.MaxDataPoints = LeakCapacity]
    /\ now = 0
    /\ result = [data |-> Nil, err |-> NoError]
    /\ appended = Nil
    /\ input = Nil /\ output = Nil
    /\ pc = [g \in Goroutines |-> 0]
    /\ local = [g \in Goroutines |-> Nil]
    /\ observed = Nil
    /\ manager = Nil /\ screen = Nil

\* A tick of the memory monitor: CollectMemoryMonitorData.
CollectLeak ==
    /\ now < LeakTicks
    /\ \E p \in LeakProviders(collector.history) :
          LET r == CollectMemoryMonitorData(collector, p, now + 1) IN
          /\ collector' = r.collector
          /\ result' = [data |-> r.data, err |-> r.err]
          /\ now' = now + 1
    /\ UNCHANGED <<kind, appended, input, output, pc, local, observed, manager, screen>>

NextLeak == CollectLeak

SpecLeak == InitLeak /\ [][NextLeak]_vars

\* C23: the memory monitor sets MemoryLeakAlert on a tick exactly when
\* memory usage is strictly increasing over the last 10 samples recorded
\* when the tick analyses its data: set as soon as 10 strictly increasing
\* samples have been recorded, false whenever one of the last 10 samples is
\* <= its predecessor.
C23_LeakAlertOnTenRisingSamples ==
    [][now' # now =>
          LET h == collector.history IN
          result'.data.MemoryLeakAlert
              = (/\ Len(h.TotalUsage) >= LeakWindow
                 /\ IsIncreasing(LastN(h.TotalUsage, Min(LeakWindow, Len(h.TotalUsage)))))]_vars

(***************************************************************************)
(* SpecSettings: the settings menus of main.go acting on the               *)
(* configurations of the five monitor managers.  manager maps a monitor    *)
(* to the settings of its configuration; output is the last operation.     *)
(* RefreshInterval is in milliseconds, ExportInterval in seconds.          *)
(***************************************************************************)
Digits == <<"0", "1", "2", "3", "4", "5", "6", "7", "8", "9">>

IsDigit(ch) == \E i \in 1..Len(Digits) : Digits[i] = ch

DigitValue(ch) == (CHOOSE i \in 1..Len(Digits) : Digits[i] = ch) - 1

\* strings.TrimSpace on a sequence of characters.
RECURSIVE TrimSpace(_)
TrimSpace(str) ==
    IF Len(str) = 0 THEN str
    ELSE IF str[1] = " " THEN TrimSpace(Tail(str))
    ELSE IF str[Len(str)] = " " THEN TrimSpace(SubSeq(str, 1, Len(str) - 1))
    ELSE str

RECURSIVE ParseDigits(_, _)
ParseDigits(str, acc) ==
    IF Len(str) = 0 THEN acc ELSE ParseDigits(Tail(str), acc * 10 + DigitValue(str[1]))

\* strconv.Atoi: an optional sign and one or more decimal digits, or an error.
Atoi(str) ==
    LET signed == Len(str) > 0 /\ str[1] \in {"-", "+"}
        digits == IF signed THEN Tail(str) ELSE str
    IN  IF Len(digits) = 0 \/ \E i \in 1..Len(digits) : ~IsDigit(digits[i])
        THEN [err |-> "invalid syntax", n |-> 0]
        ELSE [err |-> NoError,
              n |-> IF signed /\ str[1] = "-" THEN 0 - ParseDigits(digits, 0)
                    ELSE ParseDigits(digits, 0)]

\* What the user may type at a prompt for a number.
TypedLines == {<<"3">>, <<" ", "1", "2", " ">>, <<"0">>, <<"-", "1">>, <<"x">>, <<>>}

\* The settings a constructor gives the configuration of monitor k.
NewSettings(k) ==
    [RefreshInterval |-> 1000,
     ExportToFile |-> k # "cpu",
     ExportInterval |-> IF k = "cpu" THEN 30 ELSE 3600,
     ExportFormat |-> "json"]

InitSettings ==
    /\ manager = [k \in Kinds |-> NewSettings(k)]
    /\ output = "main"
    /\ kind = "all" /\ collector = Nil /\ now = 0
    /\ result = Nil /\ appended = Nil /\ input = Nil
    /\ pc = [g \in Goroutines |-> 0]
    /\ local = [g \in Goroutines |-> Nil]
    /\ observed = Nil /\ screen = Nil

\* The frame of every settings operation.
SettingsFrame == UNCHANGED <<kind, collector, now, result, appended, pc, local, observed, screen>>

RefreshRateOf(choice, line) ==
    CASE choice = 1 -> 500
      [] choice = 2 -> 1000
      [] choice = 3 -> 2000
      [] choice = 4 ->
            LET parsed == Atoi(TrimSpace(line))
            IN  IF parsed.err = NoError THEN parsed.n * 1000 ELSE 1000

setRefreshRate ==
    \E choice \in 1..4, line \in TypedLines :
        /\ manager' = [k \in Kinds |->
                          [manager[k] EXCEPT !.RefreshInterval = RefreshRateOf(choice, line)]]
        /\ output' = "setRefreshRate"
        /\ input' = IF choice = 4 THEN line ELSE Nil
        /\ SettingsFrame

MonitoringIntervalOf(choice) ==
    CASE choice = 1 -> 1000
      [] choice = 2 -> 5000
      [] choice = 3 -> 10000
      [] choice = 4 -> 30000

setMonitoringInterval ==
    \E choice \in 1..4 :
        /\ manager' = [k \in Kinds |->
                          [manager[k] EXCEPT !.RefreshInterval = MonitoringIntervalOf(choice)]]
        /\ output' = "setMonitoringInterval"
        /\ input' = Nil
        /\ SettingsFrame

ExportIntervalOf(choice, line) ==
    CASE choice = 1 -> 60
      [] choice = 2 -> 3600
      [] choice = 3 -> 86400
      [] choice = 4 ->
            LET parsed == Atoi(TrimSpace(line))
            IN  IF parsed.err = NoError THEN parsed.n * 60 ELSE 3600

setExportInterval ==
    \E choice \in 1..4, line \in TypedLines :
        /\ manager' = [k \in Kinds |->
                          [manager[k] EXCEPT !.ExportInterval = ExportIntervalOf(choice, line)]]
        /\ output' = "setExportInterval"
        /\ input' = IF choice = 4 THEN line ELSE Nil
        /\ SettingsFrame

setExportFormat ==
    \E format \in {"json", "csv", "txt"} :
        /\ manager' = [k \in Kinds |-> [manager[k] EXCEPT !.ExportFormat = format]]
        /\ output' = "setExportFormat"
        /\ input' = Nil
        /\ SettingsFrame

toggleExport ==
    \E enable \in BOOLEAN :
        /\ manager' = [k \in Kinds |-> [manager[k] EXCEPT !.ExportToFile = enable]]
        /\ output' = "toggleExport"
        /\ input' = Nil
        /\ SettingsFrame

\* resetToDefaults with choice 1 (confirmed).
resetToDefaults ==
    /\ manager' = [k \in Kinds |->
                      [manager[k] EXCEPT !.RefreshInterval = 1000,
                                         !.ExportFormat = "json",
                                         !.ExportToFile = FALSE]]
    /\ output' = "resetToDefaults"
    /\ input' = Nil
    /\ SettingsFrame

\* resetToDefaults with choice 2, or Back in any other menu.
keepSettings ==
    /\ output' = "unchanged"
    /\ input' = Nil
    /\ UNCHANGED manager
    /\ SettingsFrame

NextSettings ==
    \/ setRefreshRate
    \/ setMonitoringInterval
    \/ setExportInterval
    \/ setExportFormat
    \/ toggleExport
    \/ resetToDefaults
    \/ keepSettings

SpecSettings == InitSettings /\ [][NextSettings]_vars

\* C24: after the user confirms Reset to Defaults, whatever settings
\* operations preceded it, the configuration of every monitor (refresh
\* interval, export enabled flag, export interval, export format) equals
\* that of a freshly constructed manager.
C24_ResetRestoresConstructorSettings ==
    output = "resetToDefaults" => \A k \in Kinds : manager[k] = NewSettings(k)

\* C29: after any sequence of settings-menu operations the RefreshInterval
\* of every monitor is strictly positive, so StartLiveMonitoring can create
\* its refresh ticker.
C29_RefreshIntervalPositive ==
    \A k \in Kinds : manager[k].RefreshInterval > 0

(***************************************************************************)
(* SpecIface: the interface-name helpers of the network collector and      *)
(* collectInterfaceInfo, on the interface lists a platform may report.     *)
(* A name is a sequence of characters; input is the reported list; output  *)
(* is the outcome of the last call: a panic or a returned value.           *)
(***************************************************************************)
\* Longest interface name explored.
MaxNameLen == 4

NameChars == {"w", "l", "e", "t", "h", "o", "0"}

RECURSIVE NamesOfLen(_)
NamesOfLen(n) ==
    IF n = 0 THEN {<<>>}
    ELSE {Append(name, ch) : name \in NamesOfLen(n - 1), ch \in NameChars}

\* The non-empty interface names of at most maxLen characters.
InterfaceNames(maxLen) == UNION {NamesOfLen(n) : n \in 1..maxLen}

Eth0 == <<"e", "t", "h", "0">>

\* An interface as net.Interfaces() reports it: its name and whether it has
\* an address.
Interface(name, addrs) == [Name |-> name, Addrs |-> addrs]

\* The interface lists explored: none, one interface of any name, with an
\* address or without, and one of any name before or after eth0.
InterfaceLists(names) ==
    {<<>>}
      \cup {<<Interface(name, a)>> : name \in names, a \in BOOLEAN}
      \cup {<<Interface(Eth0, TRUE), Interface(name, TRUE)>> : name \in names}
      \cup {<<Interface(name, TRUE), Interface(Eth0, TRUE)>> : name \in names}

Panicked == [panic |-> TRUE, value |-> Nil]

Returned(v) == [panic |-> FALSE, value |-> v]

\* name[:n] == lit: a run-time panic when n exceeds len(name).
PrefixEq(name, n, lit) ==
    IF n > Len(name) THEN [panic |-> TRUE, b |-> FALSE]
    ELSE [panic |-> FALSE, b |-> SubSeq(name, 1, n) = lit]

\* a || b, b evaluated only when a is false.
OrElse(a, b) == IF a.panic \/ a.b THEN a ELSE b

getInterfaceType(name) ==
    LET wifi == OrElse(PrefixEq(name, 2, <<"w", "l">>),
                       PrefixEq(name, 4, <<"w", "l", "a", "n">>))
        ethernet == OrElse(PrefixEq(name, 2, <<"e", "t">>),
                           PrefixEq(name, 4, <<"e", "t", "h">>))
        loopback == PrefixEq(name, 2, <<"l", "o">>)
        virtual == OrElse(PrefixEq(name, 2, <<"v", "m">>), PrefixEq(name, 2, <<"v", "b">>))
    IN  IF wifi.panic THEN Panicked
        ELSE IF wifi.b THEN Returned("WiFi")
        ELSE IF ethernet.panic THEN Panicked
        ELSE IF ethernet.b THEN Returned("Ethernet")
        ELSE IF loopback.panic THEN Panicked
        ELSE IF loopback.b THEN Returned("Loopback")
        ELSE IF virtual.panic THEN Panicked
        ELSE IF virtual.b THEN Returned("Virtual")
        ELSE Returned("Unknown")

isLoopbackInterface(name) ==
    LET loopback == OrElse([panic |-> FALSE, b |-> name = <<"l", "o">>],
                           PrefixEq(name, 2, <<"l", "o">>))
    IN  IF loopback.panic THEN Panicked ELSE Returned(loopback.b)

VirtualPrefixes ==
    {<<"v", "m">>, <<"v", "b">>, <<"v", "e", "t", "h">>, <<"d", "o", "c", "k", "e", "r">>,
     <<"b", "r", "-">>, <<"v", "i", "r", "b", "r">>}

isVirtualInterface(name) ==
    \E prefix \in VirtualPrefixes :
        Len(name) >= Len(prefix) /\ SubSeq(name, 1, Len(prefix)) = prefix

\* The loop of collectInterfaceInfo from interface i on, infos being the
\* interfaceInfos collected so far.
RECURSIVE InterfaceLoop(_, _, _)
InterfaceLoop(interfaces, i, infos) ==
    IF i > Len(interfaces) THEN Returned(infos)
    ELSE IF ~interfaces[i].Addrs THEN InterfaceLoop(interfaces, i + 1, infos)
    ELSE LET name == interfaces[i].Name
             type == getInterfaceType(name)
             loopback == isLoopbackInterface(name)
         IN  IF type.panic \/ loopback.panic THEN Panicked
             ELSE InterfaceLoop(interfaces, i + 1,
                                Append(infos, [Name |-> name, Type |-> type.value,
                                               IsLoopback |-> loopback.value,
                                               IsVirtual |-> isVirtualInterface(name)]))

collectInterfaceInfo(interfaces) == InterfaceLoop(interfaces, 1, <<>>)

InitIface ==
    /\ input \in InterfaceLists(InterfaceNames(MaxNameLen))
    /\ output = Nil
    /\ kind = "network" /\ collector = Nil /\ now = 0
    /\ result = Nil /\ appended = Nil
    /\ pc = [g \in Goroutines |-> 0]
    /\ local = [g \in Goroutines |-> Nil]
    /\ observed = Nil /\ manager = Nil /\ screen = Nil

IfaceFrame ==
    UNCHANGED <<kind, collector, now, result, appended, input, pc, local, manager, screen>>

GetInterfaceType ==
    \E i \in 1..Len(input) :
        /\ output' = getInterfaceType(input[i].Name)
        /\ observed' = "getInterfaceType"
        /\ IfaceFrame

IsLoopbackInterface ==
    \E i \in 1..Len(input) :
        /\ output' = isLoopbackInterface(input[i].Name)
        /\ observed' = "isLoopbackInterface"
        /\ IfaceFrame

CollectInterfaceInfo ==
    /\ output' = collectInterfaceInfo(input)
    /\ observed' = "collectInterfaceInfo"
    /\ IfaceFrame

NextIface == GetInterfaceType \/ IsLoopbackInterface \/ CollectInterfaceInfo

SpecIface == InitIface /\ [][NextIface]_vars

\* C30: getInterfaceType and isLoopbackInterface return a result for every
\* non-empty interface name without reading past the end of the name, names
\* shorter than four characters included, so collectInterfaceInfo completes
\* for every interface list: no call ends in a panic.
C30_NoReadPastEndOfName ==
    output # Nil => ~output.panic

(***************************************************************************)
(* Alignment of the history series under Spec.                             *)
(***************************************************************************)
\* C27: after every successful tick every series of the history has the
\* length of Timestamps, so that element i of each series belongs to the
\* tick of Timestamps[i], and DataPointCount = len(Timestamps); the CPU
\* CoreUsage series included when ShowCores is switched off and on between
\* ticks.
C27_SeriesAligned ==
    LET h == collector.history IN
    result.err = NoError =>
        /\ \A s \in SeriesOf(h) : Len(h[s]) = Len(h.Timestamps)
        /\ h.DataPointCount = Len(h.Timestamps)

(***************************************************************************)
(* SpecExport: the export step of the ticks of one disk, memory, network   *)
(* or process manager, the clock advancing between ticks and the export    *)
(* settings changing between monitoring sessions.  now is the clock,       *)
(* observed keeps the last two exports made, output the last tick.         *)
(***************************************************************************)
ExportKinds == {"disk", "memory", "network", "process"}
\* Last clock value explored.
MaxClock == 7
\* Longest time between two ticks.
MaxElapsed == 2
\* Longest export interval the user sets.
MaxExportInterval == 3

NoExport == [t |-> 0, interval |-> 0]

InitExport ==
    /\ kind \in ExportKinds
    /\ collector = NewCollector(kind)
    /\ manager = NewManager
    /\ now = 0
    /\ observed = [prev |-> NoExport, last |-> NoExport]
    /\ output = Nil
    /\ result = Nil /\ appended = Nil /\ input = Nil
    /\ pc = [g \in Goroutines |-> 0]
    /\ local = [g \in Goroutines |-> Nil]
    /\ screen = Nil

\* exportDataIfNeeded, called by a tick at a later time than the tick before.
exportDataIfNeeded ==
    /\ now < MaxClock
    /\ \E d \in 1..MaxElapsed :
          LET t == now + d
              cfg == collector.config
              due == ExportIsDue(manager, cfg, t)
          IN  /\ now' = t
              /\ manager' = IF due THEN [manager EXCEPT !.lastExportTime = t] ELSE manager
              /\ observed' = IF due
                             THEN [prev |-> observed.last,
                                   last |-> [t |-> t, interval |-> cfg.ExportInterval]]
                             ELSE observed
              /\ output' = [t |-> t, exported |-> due, ExportToFile |-> cfg.ExportToFile]
    /\ UNCHANGED <<kind, collector, result, appended, input, pc, local, screen>>

\* toggleExport of the settings menu, through UpdateConfig.
UpdateExportToFile ==
    /\ \E enable \in BOOLEAN :
          collector' = [collector EXCEPT !.config.ExportToFile = enable]
    /\ UNCHANGED <<kind, now, result, appended, input, output, pc, local, observed,
                   manager, screen>>

\* setExportInterval of the settings menu, through UpdateConfig.
UpdateExportInterval ==
    /\ \E interval \in 0..MaxExportInterval :
          collector' = [collector EXCEPT !.config.ExportInterval = interval]
    /\ UNCHANGED <<kind, now, result, appended, input, output, pc, local, observed,
                   manager, screen>>

NextExport == exportDataIfNeeded \/ UpdateExportToFile \/ UpdateExportInterval

SpecExport == InitExport /\ [][NextExport]_vars

\* C26: a tick of the disk, memory, network or process monitor exports only
\* if ExportToFile is true and either no export has been made yet or at
\* least ExportInterval has elapsed since the last export; with ExportToFile
\* false no tick exports; and two exports of one manager are never less
\* than ExportInterval apart.
C26_ExportOnlyWhenDue ==
    /\ [][observed' # observed =>
             /\ collector.config.ExportToFile
             /\ (observed.last.t = 0
                   \/ now' - observed.last.t >= collector.config.ExportInterval)]_vars
    /\ [][~collector.config.ExportToFile => observed' = observed]_vars
    /\ [](observed.prev.t > 0 =>
             observed.last.t - observed.prev.t >= observed.last.interval)

\* C26 witness: two exports have been made and the last tick, with export
\* enabled, did not export because the interval had not elapsed.
C26_Witness ==
    /\ observed.prev.t > 0
    /\ output # Nil
    /\ output.ExportToFile
    /\ ~output.exported
    /\ collector.config.ExportInterval > 0

(***************************************************************************)
(* Life of the loop goroutine under SpecLive, and SpecLiveFair: SpecLive   *)
(* under a scheduler that lets every goroutine that can take a step take   *)
(* one eventually.                                                         *)
(***************************************************************************)
\* The steps of the goroutine that called StartLiveMonitoring.
MainSteps == StartLiveMonitoring \/ StartLoop \/ ReturnFromStart

\* The steps of the loop goroutine.
LoopSteps ==
    \/ LoopTick \/ LoopStop \/ LoopSignal
    \/ StopCheck("loop") \/ StopSet("loop") \/ StopSend("loop")
    \/ LoopCollect \/ LoopUpdateHistory \/ LoopDisplay \/ LoopExport

\* The steps of a StopMonitoring call made by another goroutine.
StopperSteps == StopCheck("stopper") \/ StopSet("stopper") \/ StopSend("stopper")

SpecLiveFair ==
    /\ InitLive
    /\ [][NextLive]_vars
    /\ WF_vars(MainSteps)
    /\ WF_vars(LoopSteps)
    /\ WF_vars(StopperSteps)

\* C25: under fair scheduling, whenever StopMonitoring is called from any
\* goroutine on a manager whose StartLiveMonitoring call is blocked, that
\* StartLiveMonitoring call eventually returns nil.
C25_StopUnblocksStart ==
    (pc["main"] = "wait" /\ manager.isRunning
        /\ (pc["stopper"] = "stopCheck" \/ pc["loop"] = "stopCheck"))
      ~> (pc["main"] = "returned")

\* C28: a loop goroutine never survives the return of the StartLiveMonitoring
\* call that started it, and IsRunning() is true exactly while the loop is
\* alive: once the call has returned the loop has ended, and while the call
\* is blocked, no StopMonitoring call is under way and no stop token is in
\* the channel, IsRunning() tells whether the loop is alive.
C28_LoopEndsWithStart ==
    /\ pc["main"] = "returned" => pc["loop"] = "exited"
    /\ (pc["main"] \in {"wait", "returned"} /\ pc["stopper"] = "idle"
          /\ manager.stopChannel = 0
          /\ pc["loop"] \in {"select", "exited"} \cup TickPositions)
         => (manager.isRunning <=> pc["loop"] # "exited")

====
